---- MODULE Spec2Model ----
(***************************************************************************)
(* A model of the edge engine of odds-edge: the fee model                  *)
(* (core/fee_calculator.py), the edge calculation (models/opportunity.py), *)
(* the odds converter (core/odds_converter.py) and the consensus builder   *)
(* and value finder (core/value_finder.py).                                *)
(*                                                                         *)
(* The program computes on Python floats (IEEE-754 binary64, round to      *)
(* nearest, ties to even).  The model computes on the same values: a float *)
(* is a record [sg, m, e] denoting (-1)^sg * m * 2^e with m a 53-bit       *)
(* natural number held in limbs, so that every rounding of the program is  *)
(* a rounding of the model.  Subnormals, infinities and NaN are out of the *)
(* range of the values the program is fed here.                            *)
(***************************************************************************)
EXTENDS Integers, Sequences, FiniteSets, TLC

(***************************************************************************)
(* Natural numbers of any size: little-endian sequences of limbs below     *)
(* Base, without high zero limbs; << >> is zero.                           *)
(***************************************************************************)
LimbBits == 15

Base == 2 ^ LimbBits

RECURSIVE BNorm(_)
BNorm(a) ==
    IF a = << >> \/ a[Len(a)] # 0 THEN a ELSE BNorm(SubSeq(a, 1, Len(a) - 1))

RECURSIVE BFromInt(_)
BFromInt(n) ==
    IF n = 0 THEN << >> ELSE << n % Base >> \o BFromInt(n \div Base)

RECURSIVE BToInt(_)
BToInt(a) ==
    IF a = << >> THEN 0 ELSE Head(a) + Base * BToInt(Tail(a))

\* the lowest limb of a, and the limbs above it
BLow(a) == IF a = << >> THEN 0 ELSE Head(a)

BRest(a) == IF a = << >> THEN a ELSE Tail(a)

RECURSIVE BAddC(_, _, _)
BAddC(a, b, c) ==
    IF a = << >> /\ b = << >>
    THEN (IF c = 0 THEN << >> ELSE << c >>)
    ELSE << (BLow(a) + BLow(b) + c) % Base >>
         \o BAddC(BRest(a), BRest(b), (BLow(a) + BLow(b) + c) \div Base)

BAdd(a, b) == BAddC(a, b, 0)

RECURSIVE BSubC(_, _, _)
BSubC(a, b, c) ==
    IF a = << >>
    THEN << >>
    ELSE << IF Head(a) - BLow(b) - c < 0 THEN Head(a) - BLow(b) - c + Base
            ELSE Head(a) - BLow(b) - c >>
         \o BSubC(Tail(a), BRest(b), IF Head(a) - BLow(b) - c < 0 THEN 1 ELSE 0)

\* a - b for a >= b
BSub(a, b) == BNorm(BSubC(a, b, 0))

RECURSIVE BCmpI(_, _, _)
BCmpI(a, b, i) ==
    IF i = 0 THEN 0
    ELSE IF a[i] < b[i] THEN -1
    ELSE IF a[i] > b[i] THEN 1
    ELSE BCmpI(a, b, i - 1)

\* -1, 0, 1 as a < b, a = b, a > b
BCmp(a, b) ==
    IF Len(a) < Len(b) THEN -1
    ELSE IF Len(a) > Len(b) THEN 1
    ELSE BCmpI(a, b, Len(a))

RECURSIVE BMulC(_, _, _)
BMulC(a, k, c) ==
    IF a = << >>
    THEN (IF c = 0 THEN << >> ELSE << c >>)
    ELSE << (Head(a) * k + c) % Base >>
         \o BMulC(Tail(a), k, (Head(a) * k + c) \div Base)

\* a * k for 0 <= k < Base
BMulSmall(a, k) == IF k = 0 THEN << >> ELSE BMulC(a, k, 0)

BShiftLimb(a) == IF a = << >> THEN a ELSE << 0 >> \o a

RECURSIVE BMul(_, _)
BMul(a, b) ==
    IF b = << >> THEN << >>
    ELSE BAdd(BMulSmall(a, Head(b)), BShiftLimb(BMul(a, Tail(b))))

\* a * 2^k
BShl(a, k) ==
    IF a = << >> THEN a
    ELSE [i \in 1..(k \div LimbBits) |-> 0] \o BMulSmall(a, 2 ^ (k % LimbBits))

\* rest \div 2^r for r < LimbBits
BShrBits(rest, r) ==
    BNorm([i \in 1..Len(rest) |->
             (rest[i] \div 2 ^ r)
             + (IF i < Len(rest)
                THEN (rest[i + 1] % 2 ^ r) * 2 ^ (LimbBits - r) ELSE 0)])

\* a \div 2^k
BShr(a, k) ==
    BShrBits(IF k \div LimbBits >= Len(a) THEN << >>
             ELSE SubSeq(a, k \div LimbBits + 1, Len(a)),
             k % LimbBits)

\* a % 2^k # 0
BLowAny(a, k) ==
    \E i \in 1..Len(a) :
        IF i <= k \div LimbBits THEN a[i] # 0
        ELSE i = k \div LimbBits + 1 /\ a[i] % 2 ^ (k % LimbBits) # 0

\* bit i of a (bit 0 is the lowest)
BBit(a, i) ==
    IF i \div LimbBits >= Len(a) THEN 0
    ELSE (a[i \div LimbBits + 1] \div 2 ^ (i % LimbBits)) % 2

\* the number of bits of a
BBitLen(a) ==
    IF a = << >> THEN 0
    ELSE LimbBits * (Len(a) - 1)
         + (CHOOSE k \in 1..LimbBits : 2 ^ (k - 1) <= a[Len(a)] /\ a[Len(a)] < 2 ^ k)

(***************************************************************************)
(* Python floats.                                                          *)
(***************************************************************************)
MantBits == 53

FZero == [sg |-> 0, m |-> << >>, e |-> 0]

\* the float of a significand q1 of MantBits bits, or one bit more after a
\* carry out of the rounding
FPack(sg, q1, e1) ==
    IF BBitLen(q1) > MantBits
    THEN [sg |-> sg, m |-> BShr(q1, 1), e |-> e1 + 1]
    ELSE [sg |-> sg, m |-> q1, e |-> e1]

\* q is M without its lowest sh bits: rounded up when the bits cut off are
\* more than half, or half with an odd last bit kept
FRoundCut(sg, M, e, sticky, q, sh) ==
    FPack(sg,
          IF BBit(M, sh - 1) = 1
             /\ (sticky \/ BLowAny(M, sh - 1) \/ BBit(q, 0) = 1)
          THEN BAdd(q, << 1 >>) ELSE q,
          e + sh)

\* M has L bits
FRoundFit(sg, M, e, sticky, L) ==
    IF L <= MantBits
    THEN [sg |-> sg, m |-> BShl(M, MantBits - L), e |-> e - (MantBits - L)]
    ELSE FRoundCut(sg, M, e, sticky, BShr(M, L - MantBits), L - MantBits)

\* The float nearest to (-1)^sg * M * 2^e (plus a little more when sticky),
\* ties to even
FRound(sg, M, e, sticky) ==
    IF M = << >> THEN FZero ELSE FRoundFit(sg, M, e, sticky, BBitLen(M))

\* float(n) for an integer n
FInt(n) == FRound(IF n < 0 THEN 1 ELSE 0, BFromInt(IF n < 0 THEN -n ELSE n), 0, FALSE)

FNeg(a) == IF a = FZero THEN a ELSE [a EXCEPT !.sg = 1 - a.sg]

FAbs(a) == [a EXCEPT !.sg = 0]

\* the sum of two floats whose significands ma and mb are aligned at e0
FAddAligned(a, b, ma, mb, e0) ==
    FRound(IF a.sg = b.sg \/ BCmp(ma, mb) > 0 THEN a.sg ELSE b.sg,
           IF a.sg = b.sg THEN BAdd(ma, mb)
           ELSE IF BCmp(ma, mb) > 0 THEN BSub(ma, mb)
           ELSE IF BCmp(ma, mb) < 0 THEN BSub(mb, ma)
           ELSE << >>,
           e0, FALSE)

FAddAt(a, b, e0) ==
    FAddAligned(a, b, BShl(a.m, a.e - e0), BShl(b.m, b.e - e0), e0)

\* a + b: the significands aligned at the lower exponent, added or
\* subtracted exactly, the result rounded once
FAdd(a, b) ==
    IF a = FZero THEN b
    ELSE IF b = FZero THEN a
    ELSE FAddAt(a, b, IF a.e < b.e THEN a.e ELSE b.e)

\* a - b
FSub(a, b) == FAdd(a, FNeg(b))

\* a * b
FMul(a, b) ==
    IF a = FZero \/ b = FZero THEN FZero
    ELSE FRound((a.sg + b.sg) % 2, BMul(a.m, b.m), a.e + b.e, FALSE)

\* the limb of a at place i (1 is the lowest), 0 above its length
BLimb(a, i) == IF i <= Len(a) THEN a[i] ELSE 0

\* the largest t <= guess with d * t <= r
RECURSIVE BDigitFix(_, _, _)
BDigitFix(r, d, guess) ==
    IF BCmp(BMulSmall(d, guess), r) <= 0 THEN guess ELSE BDigitFix(r, d, guess - 1)

\* r \div d for r < d * Base, where d has DivLimbs limbs and its top bit set
\* (long division: the digit is guessed from the top limbs, then fixed)
DivLimbs == 4

BDigitGuess(r, d) ==
    (BLimb(r, DivLimbs + 1) * Base + BLimb(r, DivLimbs)) \div d[DivLimbs]

BDigit(r, d) ==
    BDigitFix(r, d, IF BDigitGuess(r, d) >= Base THEN Base - 1 ELSE BDigitGuess(r, d))

\* << the digits of r * Base^i \div d, lowest first, above those of q;
\*    the remainder >> for r < d (no remainder: the digits left are zero)
RECURSIVE BDivDigits(_, _, _, _)
RECURSIVE BDivStep(_, _, _, _, _)
\* the next digit t of r1 = r * Base
BDivStep(q, r1, d, i, t) ==
    BDivDigits(<< t >> \o q, BSub(r1, BMulSmall(d, t)), d, i - 1)

BDivDigits(q, r, d, i) ==
    IF i = 0 THEN << q, r >>
    ELSE IF r = << >> THEN << [j \in 1..i |-> 0] \o q, r >>
    ELSE BDivStep(q, BShiftLimb(r), d, i, BDigit(BShiftLimb(r), d))

\* the quotient digits and remainder qr of the significands, rounded once
FDivQuotient(a, b, qr) ==
    FRound((a.sg + b.sg) % 2, BNorm(qr[1]),
           a.e - b.e - DivLimbs * LimbBits, qr[2] # << >>)

\* n and d are the significands with DivLimbs limbs
FDivScaled(a, b, n, d) ==
    FDivQuotient(a, b,
                 BDivDigits(IF BCmp(n, d) >= 0 THEN << 1 >> ELSE << >>,
                            IF BCmp(n, d) >= 0 THEN BSub(n, d) ELSE n,
                            d, DivLimbs))

\* a / b for b # 0
FDiv(a, b) ==
    IF b # FZero /\ a = FZero THEN FZero
    ELSE FDivScaled(a, b,
                    BShl(a.m, DivLimbs * LimbBits - MantBits),
                    BShl(b.m, DivLimbs * LimbBits - MantBits))

\* -1, 0, 1 as |a| < |b|, |a| = |b|, |a| > |b| for a, b # 0
FCmpMag(a, b) ==
    IF a.e # b.e THEN (IF a.e < b.e THEN -1 ELSE 1) ELSE BCmp(a.m, b.m)

\* -1, 0, 1 as a < b, a = b, a > b
FCmp(a, b) ==
    IF a = b THEN 0
    ELSE IF a = FZero THEN (IF b.sg = 1 THEN 1 ELSE -1)
    ELSE IF b = FZero THEN (IF a.sg = 1 THEN -1 ELSE 1)
    ELSE IF a.sg # b.sg THEN (IF a.sg = 1 THEN -1 ELSE 1)
    ELSE IF a.sg = 0 THEN FCmpMag(a, b) ELSE -FCmpMag(a, b)

FLt(a, b) == FCmp(a, b) < 0

FLe(a, b) == FCmp(a, b) <= 0

\* math.ceil(a), an integer
FCeil(a) ==
    IF a = FZero THEN 0
    ELSE IF a.e >= 0
    THEN (IF a.sg = 1 THEN -1 ELSE 1) * BToInt(BShl(a.m, a.e))
    ELSE IF a.sg = 1 THEN -BToInt(BShr(a.m, -a.e))
    ELSE BToInt(BShr(a.m, -a.e)) + (IF BLowAny(a.m, -a.e) THEN 1 ELSE 0)

\* the float literal num/den of the source (a decimal literal is read as the
\* float nearest to it, which is the correctly rounded quotient)
FLit(num, den) == FDiv(FInt(num), FInt(den))

(***************************************************************************)
(* config/settings.py                                                      *)
(***************************************************************************)
MIN_NET_EDGE == FLit(2, 100)

MIN_BOOKMAKERS == 3

KALSHI_TAKER_FEE_MULTIPLIER == FLit(7, 100)

KALSHI_MAKER_FEE_MULTIPLIER == FLit(175, 10000)

\* Python's None, and a raised ValueError in the place of a returned value
None == [none |-> TRUE]

ValueError == [error |-> "ValueError"]

FOne == FInt(1)

FHundred == FInt(100)

(***************************************************************************)
(* core/fee_calculator.py                                                  *)
(***************************************************************************)
\* KALSHI_MAKER_FEE_MULTIPLIER if is_maker else KALSHI_TAKER_FEE_MULTIPLIER
FeeMultiplier(is_maker) ==
    IF is_maker THEN KALSHI_MAKER_FEE_MULTIPLIER ELSE KALSHI_TAKER_FEE_MULTIPLIER

\* a fee that forgets the factor (1 - price)
RawFee_Linear(price, num_contracts, is_maker) ==
    FMul(FMul(FeeMultiplier(is_maker), FInt(num_contracts)), price)

\* raw_fee = multiplier * num_contracts * price * (1 - price), left to right
RawFee(price, num_contracts, is_maker) ==
    FMul(FMul(FMul(FeeMultiplier(is_maker), FInt(num_contracts)), price),
         FSub(FOne, price))

\* the fee in cents rounded down
FeeCents_RoundedDown(price, num_contracts, is_maker) ==
    FCeil(FMul(RawFee(price, num_contracts, is_maker), FHundred)) - 1

\* math.ceil(raw_fee * 100): the fee in cents
FeeCents(price, num_contracts, is_maker) ==
    FCeil(FMul(RawFee(price, num_contracts, is_maker), FHundred))

\* a guard that lets the bounds 0 and 1 through
calculate_kalshi_fee_OpenGuard(price, num_contracts, is_maker) ==
    IF FLt(price, FZero) \/ FLt(FOne, price) THEN ValueError
    ELSE IF num_contracts <= 0 THEN ValueError
    ELSE FDiv(FInt(FeeCents(price, num_contracts, is_maker)), FHundred)

calculate_kalshi_fee(price, num_contracts, is_maker) ==
    IF FLe(price, FZero) \/ FLe(FOne, price) THEN ValueError
    ELSE IF num_contracts <= 0 THEN ValueError
    ELSE FDiv(FInt(FeeCents(price, num_contracts, is_maker)), FHundred)

(***************************************************************************)
(* models/opportunity.py                                                   *)
(***************************************************************************)
\* effective_cost with the fee taken off the price
EffectiveCost_FeeRebated(price, fee_per_contract) == FSub(price, fee_per_contract)

\* effective_cost = kalshi_price + fee_per_contract (no_price for a "no")
EffectiveCost(price, fee_per_contract) == FAdd(price, fee_per_contract)

\* the EdgeCalculation returned: gross_edge, total_expected_value and
\* is_value_bet from the values before them
EdgeCalculation_result(position, num_contracts, price, prob, fee_per_contract, effective_cost, expected_value, net_edge) ==
    [position |-> position,
     kalshi_price |-> price,
     vegas_prob |-> prob,
     fee_per_contract |-> fee_per_contract,
     effective_cost |-> effective_cost,
     gross_edge |-> FSub(prob, price),
     net_edge |-> net_edge,
     expected_value_per_contract |-> expected_value,
     total_expected_value |-> FMul(expected_value, FInt(num_contracts)),
     is_value_bet |-> FLt(FZero, net_edge)]

\* expected_value = prob * potential_profit - (1 - prob) * effective_cost
\* with potential_profit = 1.00 - effective_cost, and net_edge
EdgeCalculation_costed(position, num_contracts, price, prob, fee_per_contract, effective_cost) ==
    EdgeCalculation_result(position, num_contracts, price, prob, fee_per_contract,
                           effective_cost,
                           FSub(FMul(prob, FSub(FOne, effective_cost)),
                                FMul(FSub(FOne, prob), effective_cost)),
                           FSub(prob, effective_cost))

\* the price and probability of the position, and the fee of one contract
EdgeCalculation_priced(position, num_contracts, price, prob, fee_per_contract) ==
    EdgeCalculation_costed(position, num_contracts, price, prob, fee_per_contract,
                           EffectiveCost(price, fee_per_contract))

EdgeCalculation_charged(kalshi_price, vegas_true_prob, num_contracts, position, fee) ==
    IF fee = ValueError THEN ValueError
    ELSE EdgeCalculation_priced(position, num_contracts,
                                IF position = "yes" THEN kalshi_price
                                ELSE FSub(FOne, kalshi_price),
                                IF position = "yes" THEN vegas_true_prob
                                ELSE FSub(FOne, vegas_true_prob),
                                FDiv(fee, FInt(num_contracts)))

\* EdgeCalculation.calculate, in the order of its assignments
EdgeCalculation_calculate(kalshi_price, vegas_true_prob, num_contracts, position, is_maker) ==
    EdgeCalculation_charged(kalshi_price, vegas_true_prob, num_contracts, position,
                            calculate_kalshi_fee(kalshi_price, num_contracts, is_maker))

(***************************************************************************)
(* core/odds_converter.py                                                  *)
(***************************************************************************)
IAbs(n) == IF n < 0 THEN -n ELSE n

american_to_implied_prob(american_odds) ==
    IF american_odds > 0
    THEN FDiv(FHundred, FInt(american_odds + 100))
    ELSE FDiv(FInt(IAbs(american_odds)), FInt(IAbs(american_odds) + 100))

\* the two probabilities returned as they came, not divided by their sum
remove_vig_shares_Unscaled(prob_a, prob_b, total) ==
    IF FLe(total, FZero) THEN ValueError
    ELSE [a |-> prob_a, b |-> prob_b]

\* the shares of the two probabilities in their sum
remove_vig_shares(prob_a, prob_b, total) ==
    IF FLe(total, FZero) THEN ValueError
    ELSE [a |-> FDiv(prob_a, total), b |-> FDiv(prob_b, total)]

remove_vig(prob_a, prob_b) == remove_vig_shares(prob_a, prob_b, FAdd(prob_a, prob_b))

(***************************************************************************)
(* statistics.median and statistics.stdev on lists of floats               *)
(***************************************************************************)
RECURSIVE FInsert(_, _)
FInsert(sorted, v) ==
    IF sorted = << >> THEN << v >>
    ELSE IF FLt(v, Head(sorted)) THEN << v >> \o sorted
    ELSE << Head(sorted) >> \o FInsert(Tail(sorted), v)

\* sorted(data)
RECURSIVE FSorted(_)
FSorted(data) ==
    IF data = << >> THEN data
    ELSE FInsert(FSorted(SubSeq(data, 1, Len(data) - 1)), data[Len(data)])

\* the middle of n sorted samples, the mean of the two middle ones for even n
MedianMiddle(sorted, n) ==
    IF n % 2 = 1 THEN sorted[n \div 2 + 1]
    ELSE FDiv(FAdd(sorted[n \div 2], sorted[n \div 2 + 1]), FInt(2))

\* the largest sample in the place of the middle one
Median_Largest(data) == FSorted(data)[Len(data)]

\* statistics.median(data) for a non-empty list
Median(data) == MedianMiddle(FSorted(data), Len(data))

\* limb i of the quotient of a by k, from hi: the << quotient, remainder >>
\* of the limbs above it
BDivSmallDigit(a, k, i, hi) ==
    << << (hi[2] * Base + a[i]) \div k >> \o hi[1], (hi[2] * Base + a[i]) % k >>

\* a \div k and a % k for 0 < k < Base: << quotient, remainder >>
RECURSIVE BDivSmallR(_, _, _)
BDivSmallR(a, k, i) ==
    IF i > Len(a) THEN << << >>, 0 >>
    ELSE BDivSmallDigit(a, k, i, BDivSmallR(a, k, i + 1))

BDivSmallNorm(qr) == << BNorm(qr[1]), qr[2] >>

BDivSmall(a, k) == BDivSmallNorm(BDivSmallR(a, k, 1))

\* the bits of a square root found at a time
SqrtChunk == 14

\* (lo + t * 2^s)^2 from sq = lo * lo, for t < Base
BSquareAt(lo, sq, s, t) ==
    BAdd(sq, BAdd(BShl(BMulSmall(lo, t), s + 1), BShl(BFromInt(t * t), 2 * s)))

\* the largest t in d .. d + 2^j - 1 with (lo + t * 2^s)^2 <= a
RECURSIVE BSqrtDigit(_, _, _, _, _, _)
BSqrtDigit(a, lo, sq, s, d, j) ==
    CASE j = 0 -> d
      [] j # 0 /\ BCmp(BSquareAt(lo, sq, s, d + 2 ^ (j - 1)), a) <= 0 ->
             BSqrtDigit(a, lo, sq, s, d + 2 ^ (j - 1), j - 1)
      [] OTHER -> BSqrtDigit(a, lo, sq, s, d, j - 1)

\* hi = << r, r * r >> with the bits t added to r at 2^s
BSqrtTake(hi, s, t) ==
    << BAdd(hi[1], BShl(BFromInt(t), s)), BSquareAt(hi[1], hi[2], s, t) >>

\* the c bits of the root of a from 2^s up, below those of hi
BSqrtChunk(a, hi, s, c) == BSqrtTake(hi, s, BSqrtDigit(a, hi[1], hi[2], s, 0, c))

\* << r, r * r >> for the largest multiple r of 2^s with r * r <= a, a root
\* of at most top bits: the bits from s + SqrtChunk up first, then SqrtChunk
\* more of them
RECURSIVE BSqrtAbove(_, _, _)
BSqrtAbove(a, s, top) ==
    IF s >= top THEN << << >>, << >> >>
    ELSE BSqrtChunk(a, BSqrtAbove(a, s + SqrtChunk, top), s,
                    IF top - s < SqrtChunk THEN top - s ELSE SqrtChunk)

\* math.isqrt(a)
BSqrt(a) == BSqrtAbove(a, 0, (BBitLen(a) + 1) \div 2)[1]

RECURSIVE BSum(_)
BSum(xs) == IF xs = << >> THEN << >> ELSE BAdd(Head(xs), BSum(Tail(xs)))

IMinOf(x, r) == IF x < r THEN x ELSE r

RECURSIVE IMin(_)
IMin(ns) == IF Len(ns) = 1 THEN ns[1] ELSE IMinOf(Head(ns), IMin(Tail(ns)))

SqrtBits == 2 * (MantBits + 2)

\* the float nearest to the square root of the quotient qr[1] * 2^(2 * (e0 - k)),
\* r its integer square root and qr[2] the remainder of the quotient
StdevRoot(e0, k, qr, r) ==
    FRound(0, r, e0 - k, qr[2] # 0 \/ BMul(r, r) # qr[1])

StdevQuotient(e0, k, qr) == StdevRoot(e0, k, qr, BSqrt(qr[1]))

\* num shifted by 2 * k bits and divided by n * (n - 1) < Base
StdevShifted(n, num, e0, k) ==
    StdevQuotient(e0, k, BDivSmall(BShl(num, 2 * k), n * (n - 1)))

\* num is n * (n - 1) * variance in units of 2^(2 * e0); k gives the quotient
\* SqrtBits bits
StdevVariance(n, num, e0) ==
    IF num = << >> THEN FZero
    ELSE StdevShifted(n, num, e0,
                      IF BBitLen(num) >= SqrtBits + LimbBits THEN 0
                      ELSE (SqrtBits + LimbBits - BBitLen(num) + 1) \div 2)

\* xs are the samples in units of 2^e0: n * sum(x^2) - sum(x)^2, exactly
StdevSums(n, xs, e0) ==
    StdevVariance(n,
                  BSub(BMulSmall(BSum([i \in DOMAIN xs |-> BMul(xs[i], xs[i])]), n),
                       BMul(BSum(xs), BSum(xs))),
                  e0)

StdevScaled(n, nz, e0) ==
    StdevSums(n, [i \in DOMAIN nz |-> BShl(nz[i].m, nz[i].e - e0)], e0)

\* nz are the samples that are not zero, e0 their least exponent
StdevNonZero(n, nz) ==
    StdevScaled(n, nz, IF nz = << >> THEN 0 ELSE IMin([i \in DOMAIN nz |-> nz[i].e]))

\* statistics.stdev(data) for two or more floats >= 0: the square root of the
\* exact sample variance, rounded once
Stdev(data) == StdevNonZero(Len(data), SelectSeq(data, LAMBDA v : v # FZero))

(***************************************************************************)
(* core/value_finder.py: the consensus builder                             *)
(***************************************************************************)
\* book.get('markets', []) of every bookmaker, in order
RECURSIVE BookMarkets(_)
BookMarkets(bookmakers) ==
    IF bookmakers = << >> THEN << >>
    ELSE Head(bookmakers).markets \o BookMarkets(Tail(bookmakers))

\* outcomes = {o['name']: o['price'] for o in market['outcomes']}
OutcomeNames(outcomes) == {outcomes[i].name : i \in DOMAIN outcomes}

\* the price of the last outcome of that name (a later key overwrites)
OutcomePrice(outcomes, name) ==
    outcomes[CHOOSE i \in DOMAIN outcomes :
                 /\ outcomes[i].name = name
                 /\ \A j \in DOMAIN outcomes : outcomes[j].name = name => j <= i].price

\* remove_vig on the implied probabilities of a market that quotes both teams
MarketQuote(market, home_team, away_team) ==
    remove_vig(american_to_implied_prob(OutcomePrice(market.outcomes, home_team)),
               american_to_implied_prob(OutcomePrice(market.outcomes, away_team)))

\* home_probs and away_probs after a market that quotes both teams
CollectQuoted(before, quote) ==
    IF quote = ValueError
    THEN [raised |-> TRUE, home_probs |-> << >>, away_probs |-> << >>]
    ELSE [raised |-> FALSE,
          home_probs |-> Append(before.home_probs, quote.a),
          away_probs |-> Append(before.away_probs, quote.b)]

\* one iteration of the loop over markets
CollectAfter(before, market, home_team, away_team) ==
    IF before.raised \/ market.key # "h2h" THEN before
    ELSE IF /\ home_team \in OutcomeNames(market.outcomes)
            /\ away_team \in OutcomeNames(market.outcomes)
    THEN CollectQuoted(before, MarketQuote(market, home_team, away_team))
    ELSE before

\* the loop over books and markets: the lists home_probs and away_probs at
\* its end, or raised when remove_vig raises
RECURSIVE CollectProbs(_, _, _)
CollectProbs(markets, home_team, away_team) ==
    IF markets = << >>
    THEN [raised |-> FALSE, home_probs |-> << >>, away_probs |-> << >>]
    ELSE CollectAfter(CollectProbs(SubSeq(markets, 1, Len(markets) - 1),
                                   home_team, away_team),
                      markets[Len(markets)], home_team, away_team)

\* the end of _process_vegas_event: nothing without samples, else the
\* medians, the number of samples and the deviations
Consensus(probs) ==
    IF probs.raised THEN ValueError
    ELSE IF probs.home_probs = << >> THEN None
    ELSE [home_prob |-> Median(probs.home_probs),
          away_prob |-> Median(probs.away_probs),
          num_bookmakers |-> Len(probs.home_probs),
          home_std |-> IF Len(probs.home_probs) > 1
                       THEN Stdev(probs.home_probs) ELSE FZero,
          away_std |-> IF Len(probs.away_probs) > 1
                       THEN Stdev(probs.away_probs) ELSE FZero]

\* the consensus builder without its check of the number of bookmakers
process_vegas_event_NoMinimum(event, bookmakers_threshold) ==
    Consensus(CollectProbs(BookMarkets(event.bookmakers),
                           event.home_team, event.away_team))

process_vegas_event(event, bookmakers_threshold) ==
    IF Len(event.bookmakers) < bookmakers_threshold THEN None
    ELSE Consensus(CollectProbs(BookMarkets(event.bookmakers),
                                event.home_team, event.away_team))

\* a label from the number of bookmakers alone
determine_confidence_CountOnly(num_bookmakers, prob_std) ==
    IF num_bookmakers >= 8 THEN "high"
    ELSE IF num_bookmakers >= 5 THEN "medium"
    ELSE "low"

determine_confidence(num_bookmakers, prob_std) ==
    IF num_bookmakers >= 8 /\ FLt(prob_std, FLit(2, 100)) THEN "high"
    ELSE IF num_bookmakers >= 5 /\ FLt(prob_std, FLit(4, 100)) THEN "medium"
    ELSE "low"

(***************************************************************************)
(* core/value_finder.py: the edge engine                                   *)
(***************************************************************************)
REFERENCE_CONTRACTS == 100

\* the same with half a dollar for a listing without yes_ask
MarketPrice_DefaultHalf(market) ==
    FDiv(FInt(IF "yes_ask" \in DOMAIN market THEN market.yes_ask ELSE 50), FHundred)

\* market.get('yes_ask', 0) / 100
MarketPrice(market) ==
    FDiv(FInt(IF "yes_ask" \in DOMAIN market THEN market.yes_ask ELSE 0), FHundred)

FMax(a, b) == IF FLt(a, b) THEN b ELSE a

\* any edge above zero in the place of the threshold
MeetsThreshold_AnyEdge(net_edge, edge_threshold) == FLt(FZero, net_edge)

\* home_calc.net_edge >= self.min_edge, and the same for away_calc
MeetsThreshold(net_edge, edge_threshold) == FLe(edge_threshold, net_edge)

\* the listing of a side
SideMarket(team, match) ==
    IF team = "home" THEN match.kalshi_home_market ELSE match.kalshi_away_market

\* ValueOpportunity(...) of a side whose edge meets the threshold
SideValueOpportunity(team, match, vegas_probs, price, calc) ==
    [sport |-> match.vegas_event.sport_key,
     vegas_event_id |-> match.vegas_event.id,
     kalshi_ticker |-> SideMarket(team, match).ticker,
     home_team |-> match.vegas_event.home_team,
     away_team |-> match.vegas_event.away_team,
     vegas_home_prob |-> vegas_probs.home_prob,
     vegas_away_prob |-> vegas_probs.away_prob,
     kalshi_home_price |-> IF team = "home" THEN price
                           ELSE IF match.kalshi_home_market # None
                           THEN MarketPrice(match.kalshi_home_market)
                           ELSE FZero,
     kalshi_away_price |-> IF team = "away" THEN price
                           ELSE IF match.kalshi_away_market # None
                           THEN MarketPrice(match.kalshi_away_market)
                           ELSE FZero,
     recommended_position |-> "yes",
     recommended_team |-> team,
     gross_edge |-> calc.gross_edge,
     net_edge |-> calc.net_edge,
     fee_impact |-> calc.fee_per_contract,
     expected_value_per_contract |-> calc.expected_value_per_contract,
     expected_value_100_contracts |-> calc.total_expected_value,
     num_bookmakers |-> vegas_probs.num_bookmakers,
     confidence |-> determine_confidence(vegas_probs.num_bookmakers,
                                         FMax(vegas_probs.home_std,
                                              vegas_probs.away_std))]

\* if calc.net_edge >= self.min_edge
SideCalculated(team, match, vegas_probs, edge_threshold, price, calc) ==
    IF ~MeetsThreshold(calc.net_edge, edge_threshold) THEN << >>
    ELSE << SideValueOpportunity(team, match, vegas_probs, price, calc) >>

\* if 0 < price < 1
SidePriced(team, match, vegas_probs, edge_threshold, price) ==
    IF ~(FLt(FZero, price) /\ FLt(price, FOne)) THEN << >>
    ELSE SideCalculated(team, match, vegas_probs, edge_threshold, price,
                        EdgeCalculation_calculate(
                            price,
                            IF team = "home" THEN vegas_probs.home_prob
                            ELSE vegas_probs.away_prob,
                            REFERENCE_CONTRACTS, "yes", FALSE))

\* the block "Check home team for value" (team = "home") or "Check away team
\* for value" (team = "away"): the opportunities it appends
SideOpportunity(team, match, vegas_probs, edge_threshold) ==
    IF SideMarket(team, match) = None THEN << >>
    ELSE SidePriced(team, match, vegas_probs, edge_threshold,
                    MarketPrice(SideMarket(team, match)))

\* the iteration after _process_vegas_event: nothing without a consensus
MatchChecked(match, vegas_probs, edge_threshold) ==
    IF vegas_probs = ValueError
    THEN [raised |-> TRUE, opportunities |-> << >>]
    ELSE IF vegas_probs = None
    THEN [raised |-> FALSE, opportunities |-> << >>]
    ELSE [raised |-> FALSE,
          opportunities |->
              SideOpportunity("home", match, vegas_probs, edge_threshold)
              \o SideOpportunity("away", match, vegas_probs, edge_threshold)]

\* one iteration of "for match in matches": the opportunities appended, or
\* raised when the consensus builder raises
MatchOpportunities(match, edge_threshold, bookmakers_threshold) ==
    MatchChecked(match,
                 process_vegas_event(match.vegas_event, bookmakers_threshold),
                 edge_threshold)

\* the list after an iteration, from the list before it
LoopAppended(before, here) ==
    IF before.raised THEN before
    ELSE IF here.raised
    THEN [raised |-> TRUE, opportunities |-> before.opportunities]
    ELSE [raised |-> FALSE,
          opportunities |-> before.opportunities \o here.opportunities]

\* the whole loop: the list opportunities at its end, or raised
RECURSIVE LoopMatches(_, _, _)
LoopMatches(match_list, edge_threshold, bookmakers_threshold) ==
    IF match_list = << >> THEN [raised |-> FALSE, opportunities |-> << >>]
    ELSE LoopAppended(LoopMatches(SubSeq(match_list, 1, Len(match_list) - 1),
                                  edge_threshold, bookmakers_threshold),
                      MatchOpportunities(match_list[Len(match_list)],
                                         edge_threshold, bookmakers_threshold))

\* a sort that puts an opportunity ahead of the earlier ones it ties with
RECURSIVE InsertByNetEdge_TiesFirst(_, _)
InsertByNetEdge_TiesFirst(sorted, opp) ==
    IF sorted = << >> THEN << opp >>
    ELSE IF FLe(Head(sorted).net_edge, opp.net_edge) THEN << opp >> \o sorted
    ELSE << Head(sorted) >> \o InsertByNetEdge_TiesFirst(Tail(sorted), opp)

\* sorted(opportunities, key=lambda x: x.net_edge, reverse=True): a stable
\* sort, elements with equal keys keep their order
RECURSIVE InsertByNetEdge(_, _)
InsertByNetEdge(sorted, opp) ==
    IF sorted = << >> THEN << opp >>
    ELSE IF FLt(Head(sorted).net_edge, opp.net_edge) THEN << opp >> \o sorted
    ELSE << Head(sorted) >> \o InsertByNetEdge(Tail(sorted), opp)

RECURSIVE SortedByNetEdge(_)
SortedByNetEdge(opps) ==
    IF opps = << >> THEN opps
    ELSE InsertByNetEdge(SortedByNetEdge(SubSeq(opps, 1, Len(opps) - 1)),
                         opps[Len(opps)])

(***************************************************************************)
(* The inputs the model feeds the program.                                 *)
(***************************************************************************)
Outcome(name, price) == [name |-> name, price |-> price]

H2H(home_odds, away_odds) ==
    [key |-> "h2h",
     outcomes |-> << Outcome("Home", home_odds), Outcome("Away", away_odds) >>]

Book(key, markets) == [key |-> key, markets |-> markets]

\* bookmakers that quote both teams in an h2h market
QuoteA == Book("quote_a", << H2H(-125, 120) >>)

QuoteB == Book("quote_b", << H2H(-130, 110) >>)

QuoteEven == Book("quote_even", << H2H(-110, -110) >>)

Outlier == Book("outlier", << H2H(-900, 600) >>)

\* bookmakers that do not: no h2h market, an h2h market under other names,
\* no market at all
SpreadsOnly ==
    Book("spreads_only",
         << [key |-> "spreads",
             outcomes |-> << Outcome("Home", -110), Outcome("Away", -110) >>] >>)

OtherNames ==
    Book("other_names",
         << [key |-> "h2h",
             outcomes |-> << Outcome("Home", -125), Outcome("Visitors", 120) >>] >>)

\* bookmakers far out on one side
ExtremeHome == Book("extreme_home", << H2H(-10000, 5000) >>)

ExtremeAway == Book("extreme_away", << H2H(5000, -10000) >>)

\* a bookmaker whose h2h market quotes odds 0 on both teams
ZeroOdds == Book("zero_odds", << H2H(0, 0) >>)

Event(id, bookmakers) ==
    [id |-> id, sport_key |-> "basketball_nba", home_team |-> "Home",
     away_team |-> "Away", bookmakers |-> bookmakers]

Listing(ticker, yes_ask) == [ticker |-> ticker, yes_ask |-> yes_ask]

\* a listing without a yes_ask key
Unpriced(ticker) == [ticker |-> ticker]

Match(vegas_event, home_market, away_market) ==
    [vegas_event |-> vegas_event, kalshi_home_market |-> home_market,
     kalshi_away_market |-> away_market]

\* a list q and its extensions by one element of S not in it
Extended(S, q) == {q} \cup {Append(q, v) : v \in S \ {q[i] : i \in DOMAIN q}}

\* all lists of at most n distinct elements of S
RECURSIVE ListsUpTo(_, _)
ListsUpTo(S, n) ==
    IF n = 0 THEN {<< >>}
    ELSE UNION {Extended(S, q) : q \in ListsUpTo(S, n - 1)}

(***************************************************************************)
(* The state: the ValueFinder's fields, the call under way and its result. *)
(***************************************************************************)
VARIABLES
    min_edge,        \* ValueFinder.min_edge
    min_bookmakers,  \* ValueFinder.min_bookmakers
    pc,              \* "call" before the function runs, "done" after
    call,            \* the function called and its arguments
    opportunities,   \* the list opportunities of find_game_winner_value
    result,          \* the value the call returned, None before and without one
    raised,          \* the error the call raised, "" when it raised none
    match_threshold, \* EventMatcher.match_threshold of every EventMatcher
    fuzz,            \* the scores rapidfuzz gives, for the texts it is asked about
    earlier,         \* the calls that returned before the one under way
    export_dir,      \* whether the directory EXPORT_PATH exists
    history_file,    \* the history file: whether it is there, and its rows
    attempt,         \* the loop variable of _request, 0 before the loop
    received,        \* what the HTTP attempts of _request got, in order
    slept,           \* the delays _request passed to time.sleep, in order
    remaining_requests, \* OddsAPIClient.remaining_requests
    used_requests    \* OddsAPIClient.used_requests

\* the state of the API clients and of their _request
http == << attempt, received, slept, remaining_requests, used_requests >>

vars ==
    << min_edge, min_bookmakers, pc, call, opportunities, result, raised,
       match_threshold, fuzz, earlier, export_dir, history_file, http >>

\* what the functions of core/fee_calculator.py, core/odds_converter.py,
\* models/opportunity.py and core/value_finder.py neither read nor write
outside == << match_threshold, fuzz, earlier, export_dir, history_file, http >>

\* the EventMatcher objects: the one a ValueFinder makes and another
Matchers == {"finder.matcher", "another"}

\* the history file before anything has made it
NoFile == [exists |-> FALSE, rows |-> << >>]

\* no text scored yet
NoScores == [partial_ratio |-> << >>, ratio |-> << >>]

\* the API clients after construction, no _request under way
ClientsInit ==
    /\ attempt = 0
    /\ received = << >>
    /\ slept = << >>
    /\ remaining_requests = None
    /\ used_requests = None

ValueFinderInit ==
    /\ min_edge = MIN_NET_EDGE
    /\ min_bookmakers = MIN_BOOKMAKERS
    /\ pc = "call"
    /\ opportunities = << >>
    /\ result = None
    /\ raised = ""
    /\ match_threshold = [matcher \in Matchers |-> 80]
    /\ fuzz = NoScores
    /\ earlier = << >>
    /\ export_dir = FALSE
    /\ history_file = NoFile
    /\ ClientsInit

\* what a call leaves in result and raised when it returns or raises value
Returned(value) == IF value = ValueError THEN None ELSE value

Raised(value) == IF value = ValueError THEN "ValueError" ELSE ""

\* yes_ask / 100
PriceOf(cents) == FDiv(FInt(cents), FHundred)

(***************************************************************************)
(* calculate_kalshi_fee                                                    *)
(***************************************************************************)
MaxContracts == 4

FeeCentsRange == (0 - 1)..101

ContractsRange == ((0 - 1)..MaxContracts) \cup {REFERENCE_CONTRACTS}

InitFee ==
    /\ ValueFinderInit
    /\ call \in [op : {"calculate_kalshi_fee"}, cents : FeeCentsRange,
                 num_contracts : ContractsRange, is_maker : BOOLEAN]

CallFee ==
    /\ pc = "call"
    /\ call.op = "calculate_kalshi_fee"
    /\ \E fee \in {calculate_kalshi_fee(PriceOf(call.cents), call.num_contracts,
                                          call.is_maker)} :
           result' = Returned(fee) /\ raised' = Raised(fee)
    /\ pc' = "done"
    /\ UNCHANGED << min_edge, min_bookmakers, call, opportunities, outside >>

SpecFee == InitFee /\ [][CallFee]_vars

FeeDone == pc = "done" /\ call.op = "calculate_kalshi_fee"

FeeInputValid ==
    /\ 0 < call.cents /\ call.cents < 100
    /\ call.num_contracts > 0

\* round(amount * 100): the whole number of cents nearest to an amount
CentsOf(amount) == FCeil(FSub(FMul(amount, FHundred), FLit(1, 2)))

\* the unrounded fee multiplier * n * p * (1 - p) of the call, in millionths
\* of a cent (0.07 is 700 and 0.0175 is 175 ten-thousandths)
ExactRawFee ==
    (IF call.is_maker THEN 175 ELSE 700)
    * call.num_contracts * call.cents * (100 - call.cents)

\* C4: for a price of 1..99 cents, n > 0 contracts and either role, the fee
\* is a whole number of cents, is not below the unrounded fee
\* multiplier * n * p * (1 - p) and exceeds it by less than one cent.
C4_FeeIsCeilingToTheCent ==
    (FeeDone /\ FeeInputValid) =>
        LET k == CentsOf(result)
        IN  /\ result = FLit(k, 100)
            /\ k * 1000000 >= ExactRawFee
            /\ (k - 1) * 1000000 < ExactRawFee

\* C5: for a valid price and n > 0 the fee is >= 0, is largest at a price of
\* 0.5 and does not grow as the price moves away from 0.5: it is at most the
\* fee at 0.5 and at most the fee one cent nearer to 0.5 (every price of
\* 1..99 cents is checked, so the order between any two prices on one side of
\* 0.5 follows step by step).
C5_FeeFallsAwayFromHalf ==
    (FeeDone /\ FeeInputValid) =>
        LET fee(c) == calculate_kalshi_fee(PriceOf(c), call.num_contracts, call.is_maker)
        IN  /\ FLe(FZero, result)
            /\ FLe(result, fee(50))
            /\ call.cents < 50 => FLe(result, fee(call.cents + 1))
            /\ call.cents > 50 => FLe(result, fee(call.cents - 1))

\* a fee computed where the cent rounding steps in: 10 cents, 100 contracts
C5_Witness ==
    /\ FeeDone
    /\ call.cents = 10 /\ call.num_contracts = REFERENCE_CONTRACTS /\ ~call.is_maker
    /\ result = FLit(64, 100)

\* C7: calculate_kalshi_fee raises ValueError exactly when price <= 0,
\* price >= 1 or contracts <= 0, and returns an amount otherwise.
C7_FeeDomainError ==
    FeeDone =>
        /\ raised = "ValueError" <=> ~FeeInputValid
        /\ raised = "ValueError" => result = None
        /\ FeeInputValid => raised = "" /\ result = FLit(CentsOf(result), 100)

\* the price 1.00 is refused although the contract count is fine
C7_Witness ==
    /\ FeeDone
    /\ call.cents = 100 /\ call.num_contracts = REFERENCE_CONTRACTS
    /\ raised = "ValueError"

(***************************************************************************)
(* EdgeCalculation.calculate                                               *)
(***************************************************************************)
MaxEdgeContracts == 2

\* prices and probabilities in whole percents, every fifth one and the ends
EdgeCents == {c \in 0..100 : c % 5 = 0} \cup {1, 99}

EdgeProbs == {c \in 0..100 : c % 5 = 0}

EdgeContracts == (0..MaxEdgeContracts) \cup {REFERENCE_CONTRACTS}

InitEdge ==
    /\ ValueFinderInit
    /\ call \in [op : {"EdgeCalculation.calculate"}, cents : EdgeCents,
                 prob : EdgeProbs, num_contracts : EdgeContracts,
                 position : {"yes", "no"}, is_maker : BOOLEAN]

CallEdge ==
    /\ pc = "call"
    /\ call.op = "EdgeCalculation.calculate"
    /\ \E calc \in {EdgeCalculation_calculate(PriceOf(call.cents), PriceOf(call.prob),
                                                call.num_contracts, call.position,
                                                call.is_maker)} :
           result' = Returned(calc) /\ raised' = Raised(calc)
    /\ pc' = "done"
    /\ UNCHANGED << min_edge, min_bookmakers, call, opportunities, outside >>

SpecEdge == InitEdge /\ [][CallEdge]_vars

EdgeDone == pc = "done" /\ call.op = "EdgeCalculation.calculate"

EdgeInputValid ==
    /\ 0 < call.cents /\ call.cents < 100
    /\ call.num_contracts > 0

\* the rounding error allowed between a float and the real number it stands
\* for: 1e-9
Tolerance == FLit(1, 1000000000)

Near(a, b) == FLe(FAbs(FSub(a, b)), Tolerance)

\* C3: for a price in (0,1), a probability in [0,1], n > 0 contracts, either
\* position and either role, EdgeCalculation.calculate returns net_edge <=
\* gross_edge, the per-contract fee is the fee of the call divided by n and is
\* >= 0, and gross_edge - net_edge is that per-contract fee (as floats: within
\* 1e-9 of it).
C3_NetEdgeAtMostGrossEdge ==
    (EdgeDone /\ EdgeInputValid) =>
        /\ raised = ""
        /\ FLe(result.net_edge, result.gross_edge)
        /\ result.fee_per_contract
               = FDiv(calculate_kalshi_fee(PriceOf(call.cents), call.num_contracts,
                                           call.is_maker),
                      FInt(call.num_contracts))
        /\ FLe(FZero, result.fee_per_contract)
        /\ Near(FSub(result.gross_edge, result.net_edge), result.fee_per_contract)

\* a "no" position as a maker, where the fee is the whole gap between the edges
C3_Witness ==
    /\ EdgeDone
    /\ call.cents = 45 /\ call.prob = 55 /\ call.position = "no"
    /\ call.is_maker /\ call.num_contracts = 1
    /\ raised = ""
    /\ result.fee_per_contract = FLit(1, 100)
    /\ FLt(result.net_edge, result.gross_edge)

(***************************************************************************)
(* ValueFinder._process_vegas_event                                        *)
(***************************************************************************)
MaxBooks == 3

BookKinds == {QuoteA, QuoteB, Outlier, SpreadsOnly, OtherNames, ZeroOdds}

InitConsensus ==
    /\ ValueFinderInit
    /\ call \in [op : {"_process_vegas_event"},
                 event : {Event("ev", books) : books \in ListsUpTo(BookKinds, MaxBooks)}]

CallConsensus ==
    /\ pc = "call"
    /\ call.op = "_process_vegas_event"
    /\ \E vegas_probs \in {process_vegas_event(call.event, min_bookmakers)} :
           result' = Returned(vegas_probs) /\ raised' = Raised(vegas_probs)
    /\ pc' = "done"
    /\ UNCHANGED << min_edge, min_bookmakers, call, opportunities, outside >>

SpecConsensus == InitConsensus /\ [][CallConsensus]_vars

ConsensusDone == pc = "done" /\ call.op = "_process_vegas_event"

\* a bookmaker has an h2h market whose outcomes name both teams of the event
Quotes(book, event) ==
    \E i \in DOMAIN book.markets :
        /\ book.markets[i].key = "h2h"
        /\ \E j \in DOMAIN book.markets[i].outcomes :
               book.markets[i].outcomes[j].name = event.home_team
        /\ \E j \in DOMAIN book.markets[i].outcomes :
               book.markets[i].outcomes[j].name = event.away_team

QuotingBooks(event) ==
    {i \in DOMAIN event.bookmakers : Quotes(event.bookmakers[i], event)}

\* C8: _process_vegas_event returns no consensus for an event in which fewer
\* than min_bookmakers bookmakers quote an h2h market with both exact team
\* names; a consensus it returns has num_bookmakers >= min_bookmakers.
C8_ConsensusNeedsQuotingBookmakers ==
    (ConsensusDone /\ raised = "") =>
        /\ Cardinality(QuotingBooks(call.event)) < min_bookmakers => result = None
        /\ result # None => result.num_bookmakers >= min_bookmakers

\* the de-vigged probabilities of a side, one per quoting bookmaker
Samples(event, side) ==
    LET probs == CollectProbs(BookMarkets(event.bookmakers),
                              event.home_team, event.away_team)
    IN  IF side = "home" THEN probs.home_probs ELSE probs.away_probs

\* the sample of one bookmaker that quotes
SampleOf(book, event, side) == Samples(Event(event.id, << book >>), side)[1]

ConsensusOf(vegas_probs, side) ==
    IF side = "home" THEN vegas_probs.home_prob ELSE vegas_probs.away_prob

\* the k-th smallest of a list of floats
OrderStatistic(data, k) ==
    CHOOSE v \in {data[i] : i \in DOMAIN data} :
        /\ Cardinality({i \in DOMAIN data : FLt(data[i], v)}) < k
        /\ Cardinality({i \in DOMAIN data : FLe(data[i], v)}) >= k

\* the middle sample, the mean of the two middle ones for an even count
MiddleOf(data) ==
    LET n == Len(data)
    IN  IF n % 2 = 1 THEN OrderStatistic(data, (n + 1) \div 2)
        ELSE FDiv(FAdd(OrderStatistic(data, n \div 2),
                       OrderStatistic(data, n \div 2 + 1)), FInt(2))

\* the event with bookmaker i replaced by book
Replaced(event, i, book) ==
    Event(event.id, [event.bookmakers EXCEPT ![i] = book])

\* bookmaker i gives the largest sample of a side
IsMaximum(event, i, side) ==
    /\ i \in QuotingBooks(event)
    /\ \A j \in QuotingBooks(event) :
           FLe(SampleOf(event.bookmakers[j], event, side),
               SampleOf(event.bookmakers[i], event, side))

\* C10: the consensus of each side is the median of the de-vigged samples of
\* that side, and with three or more samples, replacing the bookmaker of the
\* largest sample by one whose sample is larger still leaves the consensus of
\* that side as it was.
C10_ConsensusIsMedian ==
    (ConsensusDone /\ raised = "" /\ result # None) =>
        \A side \in {"home", "away"} :
            /\ ConsensusOf(result, side) = MiddleOf(Samples(call.event, side))
            /\ result.num_bookmakers >= 3 =>
                   \A i \in DOMAIN call.event.bookmakers :
                       \A book \in {Outlier, ExtremeHome, ExtremeAway} :
                           (/\ IsMaximum(call.event, i, side)
                            /\ FLt(SampleOf(call.event.bookmakers[i], call.event, side),
                                   SampleOf(book, call.event, side)))
                           => ConsensusOf(process_vegas_event(
                                              Replaced(call.event, i, book),
                                              min_bookmakers), side)
                              = ConsensusOf(result, side)

\* three quotes whose middle one is 0.55 on the home side, far from their mean
C10_Witness ==
    /\ ConsensusDone
    /\ call.event.bookmakers = << QuoteB, Outlier, QuoteA >>
    /\ raised = ""
    /\ result.num_bookmakers = 3
    /\ Near(result.home_prob, FLit(55, 100))
    /\ FLt(SampleOf(QuoteB, call.event, "home"), result.home_prob)
    /\ FLt(result.home_prob, SampleOf(Outlier, call.event, "home"))

(***************************************************************************)
(* ValueFinder.find_game_winner_value                                      *)
(***************************************************************************)
MaxMatches == 2

\* three quoting bookmakers, consensus 0.55 home and 0.45 away
ThreeQuotes == << QuoteB, QuoteA, Outlier >>

\* the matched pairs the matcher hands over
MatchPool ==
    { \* home at 45 cents against 0.55, no away listing
      Match(Event("ev_home", ThreeQuotes), Listing("K-HOME-H", 45), None),
      \* the same edge on the home side, a smaller one on the away side
      Match(Event("ev_both", ThreeQuotes), Listing("K-BOTH-H", 45),
            Listing("K-BOTH-A", 40)),
      \* edges under the threshold on both sides
      Match(Event("ev_thin", ThreeQuotes), Listing("K-THIN-H", 52),
            Listing("K-THIN-A", 44)),
      \* prices of 0 and 100 cents
      Match(Event("ev_ends", ThreeQuotes), Listing("K-ENDS-H", 0),
            Listing("K-ENDS-A", 100)),
      \* an even game, both sides at the same price
      Match(Event("ev_even", << QuoteEven, QuoteEven, QuoteEven >>),
            Listing("K-EVEN-H", 45), Listing("K-EVEN-A", 45)),
      \* two bookmakers only
      Match(Event("ev_two", << QuoteA, QuoteB >>), Listing("K-TWO-H", 10),
            Listing("K-TWO-A", 10)),
      \* three bookmakers, one of them quoting; the away listing has no price
      Match(Event("ev_one", << SpreadsOnly, QuoteA, OtherNames >>),
            Listing("K-ONE-H", 45), Unpriced("K-ONE-A")),
      \* two bookmakers only, one of them quoting odds of 0
      Match(Event("ev_two_zero", << ZeroOdds, QuoteA >>), Listing("K-TWOZ-H", 45),
            None),
      \* a bookmaker quoting odds of 0
      Match(Event("ev_zero", << QuoteA, ZeroOdds, QuoteB >>),
            Listing("K-ZERO-H", 45), None) }

Init ==
    /\ ValueFinderInit
    /\ call \in [op : {"find_game_winner_value"},
                 matches : ListsUpTo(MatchPool, MaxMatches)]

find_game_winner_value ==
    /\ pc = "call"
    /\ call.op = "find_game_winner_value"
    /\ \E loop \in {LoopMatches(call.matches, min_edge, min_bookmakers)} :
           /\ opportunities' = loop.opportunities
           /\ result' = IF loop.raised THEN None
                        ELSE SortedByNetEdge(loop.opportunities)
           /\ raised' = IF loop.raised THEN "ValueError" ELSE ""
    /\ pc' = "done"
    /\ UNCHANGED << min_edge, min_bookmakers, call, outside >>

Next == find_game_winner_value

Spec == Init /\ [][Next]_vars

FindDone == pc = "done" /\ call.op = "find_game_winner_value"

Sides == {"home", "away"}

ListingOf(match, side) ==
    IF side = "home" THEN match.kalshi_home_market ELSE match.kalshi_away_market

\* net_edge as the claim spells it: the consensus probability of the side
\* minus the price minus fee(price, 100) / 100
NetEdgeOf(match, side, vegas_probs) ==
    LET price == MarketPrice(ListingOf(match, side))
    IN  FSub(ConsensusOf(vegas_probs, side),
             FAdd(price, FDiv(calculate_kalshi_fee(price, REFERENCE_CONTRACTS, FALSE),
                              FHundred)))

\* the side has a listing priced strictly between 0 and 1, the event has a
\* consensus and the net edge reaches min_edge
Qualifies(match, side, vegas_probs) ==
    LET listing == ListingOf(match, side)
    IN  /\ listing # None
        /\ "yes_ask" \in DOMAIN listing
        /\ 0 < listing.yes_ask /\ listing.yes_ask < 100
        /\ vegas_probs # None
        /\ FLe(min_edge, NetEdgeOf(match, side, vegas_probs))

OpportunitiesFor(opps, ticker, side) ==
    {j \in DOMAIN opps : opps[j].kalshi_ticker = ticker /\ opps[j].recommended_team = side}

\* C1: find_game_winner_value returns an opportunity for a side of a matched
\* pair exactly when that side has a listing priced strictly between 0 and 1,
\* the event has a consensus and the net edge (consensus probability minus
\* price minus fee(price, 100) / 100) is >= min_edge: one opportunity with that
\* net edge for such a side, none for any other side, and every returned
\* opportunity has net_edge >= min_edge.
C1_OpportunityIffEdge ==
    (FindDone /\ raised = "") =>
        /\ \A i \in DOMAIN call.matches :
               \A vegas_probs \in {process_vegas_event(call.matches[i].vegas_event,
                                                       min_bookmakers)} :
                   \A side \in Sides :
                       LET match == call.matches[i]
                           listing == ListingOf(match, side)
                           found == OpportunitiesFor(result, listing.ticker, side)
                       IN  listing # None =>
                               IF Qualifies(match, side, vegas_probs)
                               THEN /\ Cardinality(found) = 1
                                    /\ \A j \in found :
                                           /\ result[j].net_edge
                                                  = NetEdgeOf(match, side, vegas_probs)
                                           /\ result[j].vegas_event_id
                                                  = match.vegas_event.id
                               ELSE found = {}
        /\ \A j \in DOMAIN result :
               /\ FLe(min_edge, result[j].net_edge)
               /\ \E i \in DOMAIN call.matches :
                      LET listing == ListingOf(call.matches[i], result[j].recommended_team)
                      IN  listing # None /\ listing.ticker = result[j].kalshi_ticker

\* one side over the threshold beside two under it
C1_Witness ==
    /\ FindDone
    /\ raised = ""
    /\ Len(call.matches) = 2
    /\ call.matches[1].vegas_event.id = "ev_thin"
    /\ call.matches[2].vegas_event.id = "ev_home"
    /\ Len(result) = 1
    /\ result[1].kalshi_ticker = "K-HOME-H"
    /\ FLe(min_edge, result[1].net_edge)

\* the place the stable descending sort gives opportunity i of a list
Rank(opps, i) ==
    1 + Cardinality({j \in DOMAIN opps : FLt(opps[i].net_edge, opps[j].net_edge)})
      + Cardinality({j \in 1..(i - 1) : FCmp(opps[i].net_edge, opps[j].net_edge) = 0})

\* the place of an opportunity in the order of emission: the matched pairs in
\* input order, home before away
EmissionPlace(opp) ==
    LET i == CHOOSE k \in DOMAIN call.matches :
                 call.matches[k].vegas_event.id = opp.vegas_event_id
    IN  2 * i + (IF opp.recommended_team = "home" THEN 0 ELSE 1)

\* C2: the list find_game_winner_value returns is a permutation of the
\* emitted opportunities (the list opportunities, in event input order, home
\* before away) in non-increasing net_edge; opportunities with equal net_edge
\* keep their emission order, and the sort changes no field of any of them.
C2_SortedStablyByNetEdge ==
    (FindDone /\ raised = "") =>
        /\ Len(result) = Len(opportunities)
        /\ \A i \in DOMAIN opportunities :
               result[Rank(opportunities, i)] = opportunities[i]
        /\ \A j \in 1..(Len(result) - 1) :
               /\ FLe(result[j + 1].net_edge, result[j].net_edge)
               /\ FCmp(result[j + 1].net_edge, result[j].net_edge) = 0
                      => EmissionPlace(result[j]) < EmissionPlace(result[j + 1])
        /\ \A j \in 1..(Len(opportunities) - 1) :
               EmissionPlace(opportunities[j]) < EmissionPlace(opportunities[j + 1])

\* two home sides tie and stay in input order, ahead of the away side that
\* was emitted between them
C2_Witness ==
    /\ FindDone
    /\ raised = ""
    /\ Len(opportunities) = 3
    /\ opportunities[2].kalshi_ticker = "K-BOTH-A"
    /\ Len(result) = 3
    /\ result[1].kalshi_ticker = "K-BOTH-H"
    /\ result[2].kalshi_ticker = "K-HOME-H"
    /\ result[3].kalshi_ticker = "K-BOTH-A"
    /\ result[1].net_edge = result[2].net_edge

\* C6: at a price of 0.45 against a consensus of 0.55, as a taker of 100
\* contracts, the fee is $1.74, the effective cost per contract is 0.4674, the
\* net edge is 0.0826 (floats within 1e-9 of these) and the side is emitted
\* at the default threshold of 2%.
C6_WorkedExample ==
    (FindDone /\ raised = "") =>
        \A i \in DOMAIN call.matches :
            call.matches[i].vegas_event.id = "ev_home" =>
                /\ min_edge = MIN_NET_EDGE
                /\ calculate_kalshi_fee(FLit(45, 100), REFERENCE_CONTRACTS, FALSE)
                       = FLit(174, 100)
                /\ Near(EdgeCalculation_calculate(FLit(45, 100), FLit(55, 100),
                                                  REFERENCE_CONTRACTS, "yes",
                                                  FALSE).effective_cost,
                        FLit(4674, 10000))
                /\ \E j \in DOMAIN result :
                       /\ result[j].kalshi_ticker = "K-HOME-H"
                       /\ result[j].recommended_team = "home"
                       /\ result[j].kalshi_home_price = FLit(45, 100)
                       /\ Near(result[j].vegas_home_prob, FLit(55, 100))
                       /\ Near(result[j].fee_impact, FLit(174, 10000))
                       /\ Near(result[j].net_edge, FLit(826, 10000))

\* the pair alone in the batch: its home side is the one opportunity returned
C6_Witness ==
    /\ FindDone
    /\ raised = ""
    /\ Len(call.matches) = 1
    /\ call.matches[1].vegas_event.id = "ev_home"
    /\ call.matches[1].kalshi_home_market.yes_ask = 45
    /\ Len(result) = 1
    /\ result[1].recommended_team = "home"

\* C9: for an event with fewer than 3 bookmakers (the default
\* min_bookmakers) the consensus builder returns None without raising, and
\* find_game_winner_value returns no opportunity for that event whatever the
\* prices of its listings.
C9_FewBookmakersNoOpportunity ==
    FindDone =>
        \A i \in DOMAIN call.matches :
            LET match == call.matches[i]
            IN  Len(match.vegas_event.bookmakers) < MIN_BOOKMAKERS =>
                    /\ process_vegas_event(match.vegas_event, min_bookmakers) = None
                    /\ ~MatchOpportunities(match, min_edge, min_bookmakers).raised
                    /\ raised = "" =>
                           \A j \in DOMAIN result :
                               result[j].vegas_event_id # match.vegas_event.id

\* an event of two bookmakers ahead of one that yields an opportunity
C9_Witness ==
    /\ FindDone
    /\ raised = ""
    /\ Len(call.matches) = 2
    /\ call.matches[1].vegas_event.id = "ev_two"
    /\ Len(call.matches[1].vegas_event.bookmakers) = 2
    /\ call.matches[1].kalshi_home_market.yes_ask = 10
    /\ Len(result) = 1
    /\ result[1].vegas_event_id = "ev_home"

(***************************************************************************)
(* american_to_implied_prob and remove_vig                                 *)
(***************************************************************************)
MaxOdds == 150

MaxTwentieths == 12

\* American odds on both sides of zero, and zero itself
OddsRange == (0 - MaxOdds)..MaxOdds

\* probabilities in twentieths, a few of them below zero
TwentiethsRange == (0 - 3)..MaxTwentieths

InitOdds ==
    /\ ValueFinderInit
    /\ \/ call \in [op : {"american_to_implied_prob"}, american_odds : OddsRange]
       \/ call \in [op : {"remove_vig"}, a : TwentiethsRange, b : TwentiethsRange]

CallImpliedProb ==
    /\ pc = "call"
    /\ call.op = "american_to_implied_prob"
    /\ result' = american_to_implied_prob(call.american_odds)
    /\ raised' = ""
    /\ pc' = "done"
    /\ UNCHANGED << min_edge, min_bookmakers, call, opportunities, outside >>

\* twentieths / 20
ProbOf(twentieths) == FDiv(FInt(twentieths), FInt(20))

CallRemoveVig ==
    /\ pc = "call"
    /\ call.op = "remove_vig"
    /\ \E shares \in {remove_vig(ProbOf(call.a), ProbOf(call.b))} :
           result' = Returned(shares) /\ raised' = Raised(shares)
    /\ pc' = "done"
    /\ UNCHANGED << min_edge, min_bookmakers, call, opportunities, outside >>

NextOdds == CallImpliedProb \/ CallRemoveVig

SpecOdds == InitOdds /\ [][NextOdds]_vars

VigDone == pc = "done" /\ call.op = "remove_vig"

ImpliedDone == pc = "done" /\ call.op = "american_to_implied_prob"

\* the shares r of a call are the arguments divided by their sum, they keep
\* the ratio of the arguments (r.a * p_b = r.b * p_a), and their sum is 1
\* when sum_is_one
VigShares(r, sum_is_one) ==
    /\ Near(FMul(r.a, FAdd(ProbOf(call.a), ProbOf(call.b))), ProbOf(call.a))
    /\ Near(FMul(r.b, FAdd(ProbOf(call.a), ProbOf(call.b))), ProbOf(call.b))
    /\ Near(FMul(r.a, ProbOf(call.b)), FMul(r.b, ProbOf(call.a)))
    /\ sum_is_one

\* C11 as stated: for positive p_a and p_b, remove_vig returns
\* (p_a/(p_a+p_b), p_b/(p_a+p_b)), the two sum to exactly 1 and keep the ratio
\* p_a : p_b; it raises ValueError and returns nothing when p_a + p_b <= 0.
C11_SharesSumToExactlyOne ==
    VigDone =>
        /\ (call.a + call.b <= 0) => (raised = "ValueError" /\ result = None)
        /\ (call.a > 0 /\ call.b > 0) =>
               /\ raised = ""
               /\ VigShares(result, FAdd(result.a, result.b) = FOne)

\* C11: for positive p_a and p_b, remove_vig returns
\* (p_a/(p_a+p_b), p_b/(p_a+p_b)), the two sum to 1 within the float
\* tolerance 1e-9 and keep the ratio p_a : p_b; it raises ValueError and
\* returns nothing when p_a + p_b <= 0.
C11_SharesSumToOne ==
    VigDone =>
        /\ (call.a + call.b <= 0) => (raised = "ValueError" /\ result = None)
        /\ (call.a > 0 /\ call.b > 0) =>
               /\ raised = ""
               /\ VigShares(result, Near(FAdd(result.a, result.b), FOne))

\* 0.05 and 0.15 become 0.25 and 0.75, which sum to a float below 1
C11_Witness ==
    /\ VigDone
    /\ call.a = 1 /\ call.b = 3
    /\ raised = ""
    /\ Near(result.a, FLit(1, 4)) /\ Near(result.b, FLit(3, 4))
    /\ FLt(FAdd(result.a, result.b), FOne)

\* C12: for every integer v, american_to_implied_prob(v) is strictly between
\* 0 and 1, and is 100/(v+100) for v > 0 and |v|/(|v|+100) for v <= 0.
C12_ImpliedProbInsideUnitInterval ==
    ImpliedDone =>
        /\ raised = ""
        /\ FLt(FZero, result) /\ FLt(result, FOne)
        /\ call.american_odds > 0 =>
               Near(FMul(result, FInt(call.american_odds + 100)), FHundred)
        /\ call.american_odds <= 0 =>
               Near(FMul(result, FInt(IAbs(call.american_odds) + 100)),
                    FInt(IAbs(call.american_odds)))

(***************************************************************************)
(* ValueFinder._determine_confidence, as find_game_winner_value calls it   *)
(***************************************************************************)
MaxQuoting == 9

\* a bookmaker some way off QuoteB: 0.596 on the home side against 0.543
QuoteWide == Book("quote_wide", << H2H(-160, 140) >>)

\* how far the bookmakers of an event disagree: the one that takes turns
\* with QuoteB
Spreads == {QuoteA, QuoteWide, Outlier}

\* n quoting bookmakers, QuoteB and another taking turns, behind the
\* bookmakers of pad, which quote nothing
QuotingEvent(id, n, other, pad) ==
    Event(id, pad \o [i \in 1..n |-> IF i % 2 = 1 THEN QuoteB ELSE other])

\* matched pairs of such events with cheap listings on both sides or on the
\* home side only
ConfidencePool ==
    { Match(QuotingEvent("ev_conf", n, other, pad), Listing("K-CONF-H", 30), away) :
          n \in 4..MaxQuoting, other \in Spreads,
          pad \in {<< >>, << SpreadsOnly >>},
          away \in {None, Listing("K-CONF-A", 5)} }

InitConfidence ==
    /\ ValueFinderInit
    /\ call \in [op : {"find_game_winner_value"},
                 matches : {<< match >> : match \in ConfidencePool}]

SpecConfidence == InitConfidence /\ [][Next]_vars

\* the label the claim gives n contributing bookmakers at a dispersion
LabelOf(n, dispersion) ==
    IF n >= 8 /\ FLt(dispersion, FLit(2, 100)) THEN "high"
    ELSE IF n >= 5 /\ FLt(dispersion, FLit(4, 100)) THEN "medium"
    ELSE "low"

\* the larger of two deviations
Dispersion(vegas_probs) ==
    IF FLe(vegas_probs.away_std, vegas_probs.home_std)
    THEN vegas_probs.home_std ELSE vegas_probs.away_std

\* C13: every opportunity carries the label "high" exactly when its event
\* has >= 8 contributing bookmakers and a dispersion < 0.02, "medium" exactly
\* when it is not high and has >= 5 contributing bookmakers and a dispersion
\* < 0.04, and "low" otherwise, the dispersion being the larger of the home
\* and away standard deviations; the two opportunities of one event carry the
\* same label.
C13_ConfidenceLabel ==
    (FindDone /\ raised = "") =>
        /\ \A i \in DOMAIN call.matches :
               LET event == call.matches[i].vegas_event
                   vegas_probs == process_vegas_event(event, min_bookmakers)
               IN  \A j \in DOMAIN result :
                       result[j].vegas_event_id = event.id =>
                           /\ result[j].num_bookmakers = Cardinality(QuotingBooks(event))
                           /\ result[j].confidence
                                  = LabelOf(Cardinality(QuotingBooks(event)),
                                            Dispersion(vegas_probs))
        /\ \A j, k \in DOMAIN result :
               result[j].vegas_event_id = result[k].vegas_event_id =>
                   result[j].confidence = result[k].confidence

\* nine bookmakers of which eight quote, close together: both sides "high"
C13_Witness ==
    /\ FindDone
    /\ raised = ""
    /\ Len(call.matches) = 1
    /\ Len(call.matches[1].vegas_event.bookmakers) = 9
    /\ Len(result) = 2
    /\ result[1].num_bookmakers = 8 /\ result[2].num_bookmakers = 8
    /\ result[1].confidence = "high" /\ result[2].confidence = "high"
    /\ result[1].recommended_team # result[2].recommended_team

(***************************************************************************)
(* A domain error inside the loop of find_game_winner_value                *)
(***************************************************************************)
\* C14: a ValueError raised while one matched pair is evaluated (remove_vig
\* on a bookmaker that quotes odds 0 on both teams) does not abort the call:
\* find_game_winner_value raises nothing, skips that pair and returns the
\* opportunities of all the other pairs.
C14_DomainErrorSkipsPair ==
    FindDone =>
        /\ raised = ""
        /\ \A i \in DOMAIN call.matches :
               LET here == MatchOpportunities(call.matches[i], min_edge, min_bookmakers)
               IN  IF here.raised
                   THEN \A j \in DOMAIN result :
                            result[j].vegas_event_id # call.matches[i].vegas_event.id
                   ELSE \A k \in DOMAIN here.opportunities :
                            \E j \in DOMAIN result : result[j] = here.opportunities[k]

(***************************************************************************)
(* Python str operations, on TLA+ strings                                  *)
(***************************************************************************)
UpperCase == "ABCDEFGHIJKLMNOPQRSTUVWXYZ"

LowerCase == "abcdefghijklmnopqrstuvwxyz"

\* the character at position i of a string
CharAt(s, i) == SubSeq(s, i, i)

\* s[i:], counting from 0 as Python does
From(s, i) == SubSeq(s, i + 1, Len(s))

\* the characters str.lower() changes
UpperLetters == {CharAt(UpperCase, i) : i \in 1..26}

LowerLetter ==
    [c \in UpperLetters |->
        CharAt(LowerCase, CHOOSE i \in 1..26 : CharAt(UpperCase, i) = c)]

\* c.lower() of one character
LowerChar(c) == IF c \in UpperLetters THEN LowerLetter[c] ELSE c

\* s.lower()
RECURSIVE Lower(_)
Lower(s) ==
    IF s = "" THEN ""
    ELSE CHOOSE lower \in {LowerChar(c) \o Lower(Tail(s)) : c \in {Head(s)}} : TRUE

\* the characters str.strip() and str.split() take for whitespace
IsSpace(c) == c \in {" ", "\t", "\n", "\r"}

RECURSIVE LStrip(_)
LStrip(s) == IF s # "" /\ IsSpace(Head(s)) THEN LStrip(Tail(s)) ELSE s

RECURSIVE RStrip(_)
RStrip(s) ==
    IF s # "" /\ IsSpace(CharAt(s, Len(s)))
    THEN RStrip(SubSeq(s, 1, Len(s) - 1)) ELSE s

\* s.strip()
Strip(s) == RStrip(LStrip(s))

\* s.startswith(prefix)
StartsWith(s, prefix) ==
    Len(prefix) <= Len(s) /\ SubSeq(s, 1, Len(prefix)) = prefix

\* s.endswith(suffix)
EndsWith(s, suffix) ==
    Len(suffix) <= Len(s) /\ SubSeq(s, Len(s) - Len(suffix) + 1, Len(s)) = suffix

\* sub in s
ContainsAt(sub, s, i) == SubSeq(s, i + 1, i + Len(sub)) = sub

Contains(sub, s) ==
    \E texts \in {<< sub, s >>} :
        \E i \in 0..(Len(texts[2]) - Len(texts[1])) : ContainsAt(texts[1], texts[2], i)

\* s.replace(old, new) for a non-empty old: left to right, without overlap
RECURSIVE Replace(_, _, _)
Replace(s, old, new) ==
    IF Len(s) < Len(old) THEN s
    ELSE IF StartsWith(s, old) THEN new \o Replace(From(s, Len(old)), old, new)
    ELSE Head(s) \o Replace(Tail(s), old, new)

\* s.split(): the words between runs of whitespace; word is the one begun
RECURSIVE SplitFrom(_, _)
SplitFrom(s, word) ==
    IF s = "" THEN (IF word = "" THEN << >> ELSE << word >>)
    ELSE IF IsSpace(Head(s))
    THEN (IF word = "" THEN << >> ELSE << word >>) \o SplitFrom(Tail(s), "")
    ELSE SplitFrom(Tail(s), word \o Head(s))

Split(s) == SplitFrom(s, "")

\* ' '.join(words)
RECURSIVE JoinWords(_)
JoinWords(words) ==
    IF words = << >> THEN ""
    ELSE IF Len(words) = 1 THEN words[1]
    ELSE words[1] \o " " \o JoinWords(Tail(words))

\* ''.join(w[0] for w in words if w)
RECURSIVE Initials(_)
Initials(words) ==
    IF words = << >> THEN ""
    ELSE (IF words[1] = "" THEN "" ELSE Head(words[1])) \o Initials(Tail(words))

\* the longest strings of a set
Longest(S) == {s \in S : \A t \in S : Len(t) <= Len(s)}

(***************************************************************************)
(* core/event_matcher.py: the lookup tables                                *)
(***************************************************************************)
\* city prefixes to remove, in the order of the list
CITY_PREFIXES ==
    <<
       "los angeles", "la", "new york", "ny", "san francisco", "sf",
       "tampa bay", "tb", "golden state", "gs", "san antonio", "sa",
       "oklahoma city", "okc", "new orleans", "no", "green bay", "gb",
       "kansas city", "kc", "las vegas", "lv", "new england", "ne",
       "san diego", "sd", "san jose", "sj", "st louis", "stl", "salt lake",
       "sl", "twin cities", "minnesota", "mn", "washington", "dc", "miami",
       "denver", "phoenix", "seattle", "boston", "chicago", "detroit",
       "houston", "dallas", "atlanta", "philadelphia", "baltimore",
       "cleveland", "indianapolis", "jacksonville", "cincinnati",
       "pittsburgh", "carolina", "arizona", "tennessee", "buffalo",
       "milwaukee", "orlando", "memphis", "portland", "sacramento", "utah",
       "toronto", "brooklyn", "colorado", "florida", "anaheim", "columbus",
       "edmonton", "calgary", "vancouver", "ottawa", "montreal", "winnipeg",
       "nashville", "new jersey" >>

\* nickname and code, one pair per key of the dict (a key written twice
\* keeps its first place and its last code)
NICKNAME_TO_ABBREV ==
    <<
       << "hawks", "atl" >>, << "celtics", "bos" >>, << "nets", "bkn" >>,
       << "hornets", "cha" >>, << "bulls", "chi" >>,
       << "cavaliers", "cle" >>, << "cavs", "cle" >>,
       << "mavericks", "dal" >>, << "mavs", "dal" >>, << "nuggets", "den" >>,
       << "pistons", "det" >>, << "warriors", "gsw" >>,
       << "rockets", "hou" >>, << "pacers", "ind" >>,
       << "clippers", "lac" >>, << "lakers", "lal" >>,
       << "grizzlies", "mem" >>, << "heat", "mia" >>, << "bucks", "mil" >>,
       << "timberwolves", "min" >>, << "wolves", "min" >>,
       << "pelicans", "nop" >>, << "knicks", "nyk" >>,
       << "thunder", "okc" >>, << "magic", "orl" >>, << "76ers", "phi" >>,
       << "sixers", "phi" >>, << "suns", "phx" >>,
       << "trail blazers", "por" >>, << "blazers", "por" >>,
       << "kings", "la" >>, << "spurs", "sas" >>, << "raptors", "tor" >>,
       << "jazz", "uta" >>, << "wizards", "was" >>, << "cardinals", "stl" >>,
       << "falcons", "atl" >>, << "ravens", "bal" >>, << "bills", "buf" >>,
       << "panthers", "fla" >>, << "bears", "chi" >>, << "bengals", "cin" >>,
       << "browns", "cle" >>, << "cowboys", "dal" >>, << "broncos", "den" >>,
       << "lions", "det" >>, << "packers", "gb" >>, << "texans", "hou" >>,
       << "colts", "ind" >>, << "jaguars", "jax" >>, << "chiefs", "kc" >>,
       << "raiders", "lv" >>, << "chargers", "lac" >>, << "rams", "lar" >>,
       << "dolphins", "mia" >>, << "vikings", "min" >>,
       << "patriots", "ne" >>, << "pats", "ne" >>, << "saints", "no" >>,
       << "giants", "sf" >>, << "jets", "wpg" >>, << "eagles", "phi" >>,
       << "steelers", "pit" >>, << "49ers", "sf" >>, << "niners", "sf" >>,
       << "seahawks", "sea" >>, << "buccaneers", "tb" >>, << "bucs", "tb" >>,
       << "titans", "ten" >>, << "commanders", "was" >>,
       << "ducks", "ana" >>, << "coyotes", "ari" >>, << "bruins", "bos" >>,
       << "sabres", "buf" >>, << "flames", "cgy" >>,
       << "hurricanes", "car" >>, << "blackhawks", "chi" >>,
       << "avalanche", "col" >>, << "blue jackets", "cbj" >>,
       << "stars", "dal" >>, << "red wings", "det" >>, << "oilers", "edm" >>,
       << "wild", "min" >>, << "canadiens", "mtl" >>, << "habs", "mtl" >>,
       << "predators", "nsh" >>, << "preds", "nsh" >>, << "devils", "njd" >>,
       << "islanders", "nyi" >>, << "rangers", "tex" >>,
       << "senators", "ott" >>, << "sens", "ott" >>, << "flyers", "phi" >>,
       << "penguins", "pit" >>, << "pens", "pit" >>, << "sharks", "sjs" >>,
       << "kraken", "sea" >>, << "blues", "stl" >>, << "lightning", "tbl" >>,
       << "bolts", "tbl" >>, << "maple leafs", "tor" >>,
       << "leafs", "tor" >>, << "canucks", "van" >>,
       << "golden knights", "vgk" >>, << "knights", "vgk" >>,
       << "capitals", "wsh" >>, << "caps", "wsh" >>,
       << "diamondbacks", "ari" >>, << "d-backs", "ari" >>,
       << "braves", "atl" >>, << "orioles", "bal" >>, << "red sox", "bos" >>,
       << "cubs", "chc" >>, << "white sox", "cws" >>, << "reds", "cin" >>,
       << "guardians", "cle" >>, << "rockies", "col" >>,
       << "tigers", "det" >>, << "astros", "hou" >>, << "royals", "kc" >>,
       << "angels", "laa" >>, << "dodgers", "lad" >>, << "marlins", "mia" >>,
       << "brewers", "mil" >>, << "twins", "min" >>, << "mets", "nym" >>,
       << "yankees", "nyy" >>, << "athletics", "ath" >>, << "a's", "ath" >>,
       << "phillies", "phi" >>, << "pirates", "pit" >>, << "padres", "sd" >>,
       << "mariners", "sea" >>, << "rays", "tb" >>, << "blue jays", "tor" >>,
       << "jays", "tor" >>, << "nationals", "wsh" >>, << "nats", "wsh" >> >>

\* full team name and code
FULL_NAME_TO_ABBREV ==
    <<
       << "atlanta hawks", "atl" >>, << "boston celtics", "bos" >>,
       << "brooklyn nets", "bkn" >>, << "charlotte hornets", "cha" >>,
       << "chicago bulls", "chi" >>, << "cleveland cavaliers", "cle" >>,
       << "dallas mavericks", "dal" >>, << "denver nuggets", "den" >>,
       << "detroit pistons", "det" >>, << "golden state warriors", "gsw" >>,
       << "houston rockets", "hou" >>, << "indiana pacers", "ind" >>,
       << "los angeles clippers", "lac" >>, << "la clippers", "lac" >>,
       << "los angeles lakers", "lal" >>, << "la lakers", "lal" >>,
       << "memphis grizzlies", "mem" >>, << "miami heat", "mia" >>,
       << "milwaukee bucks", "mil" >>, << "minnesota timberwolves", "min" >>,
       << "new orleans pelicans", "nop" >>, << "new york knicks", "nyk" >>,
       << "oklahoma city thunder", "okc" >>, << "orlando magic", "orl" >>,
       << "philadelphia 76ers", "phi" >>, << "phoenix suns", "phx" >>,
       << "portland trail blazers", "por" >>,
       << "sacramento kings", "sac" >>, << "san antonio spurs", "sas" >>,
       << "toronto raptors", "tor" >>, << "utah jazz", "uta" >>,
       << "washington wizards", "was" >>, << "arizona cardinals", "ari" >>,
       << "atlanta falcons", "atl" >>, << "baltimore ravens", "bal" >>,
       << "buffalo bills", "buf" >>, << "carolina panthers", "car" >>,
       << "chicago bears", "chi" >>, << "cincinnati bengals", "cin" >>,
       << "cleveland browns", "cle" >>, << "dallas cowboys", "dal" >>,
       << "denver broncos", "den" >>, << "detroit lions", "det" >>,
       << "green bay packers", "gb" >>, << "houston texans", "hou" >>,
       << "indianapolis colts", "ind" >>,
       << "jacksonville jaguars", "jax" >>, << "kansas city chiefs", "kc" >>,
       << "las vegas raiders", "lv" >>, << "los angeles chargers", "lac" >>,
       << "la chargers", "lac" >>, << "los angeles rams", "lar" >>,
       << "la rams", "lar" >>, << "miami dolphins", "mia" >>,
       << "minnesota vikings", "min" >>, << "new england patriots", "ne" >>,
       << "new orleans saints", "no" >>, << "new york giants", "nyg" >>,
       << "new york jets", "nyj" >>, << "philadelphia eagles", "phi" >>,
       << "pittsburgh steelers", "pit" >>, << "san francisco 49ers", "sf" >>,
       << "seattle seahawks", "sea" >>, << "tampa bay buccaneers", "tb" >>,
       << "tennessee titans", "ten" >>, << "washington commanders", "was" >>,
       << "anaheim ducks", "ana" >>, << "arizona coyotes", "ari" >>,
       << "boston bruins", "bos" >>, << "buffalo sabres", "buf" >>,
       << "calgary flames", "cgy" >>, << "carolina hurricanes", "car" >>,
       << "chicago blackhawks", "chi" >>, << "colorado avalanche", "col" >>,
       << "columbus blue jackets", "cbj" >>, << "dallas stars", "dal" >>,
       << "detroit red wings", "det" >>, << "edmonton oilers", "edm" >>,
       << "florida panthers", "fla" >>, << "los angeles kings", "la" >>,
       << "la kings", "la" >>, << "minnesota wild", "min" >>,
       << "montreal canadiens", "mtl" >>, << "nashville predators", "nsh" >>,
       << "new jersey devils", "njd" >>, << "new york islanders", "nyi" >>,
       << "new york rangers", "nyr" >>, << "ottawa senators", "ott" >>,
       << "philadelphia flyers", "phi" >>,
       << "pittsburgh penguins", "pit" >>, << "san jose sharks", "sjs" >>,
       << "seattle kraken", "sea" >>, << "st louis blues", "stl" >>,
       << "st. louis blues", "stl" >>, << "tampa bay lightning", "tbl" >>,
       << "toronto maple leafs", "tor" >>, << "utah hockey club", "uta" >>,
       << "vancouver canucks", "van" >>, << "vegas golden knights", "vgk" >>,
       << "washington capitals", "wsh" >>, << "winnipeg jets", "wpg" >>,
       << "arizona diamondbacks", "ari" >>, << "atlanta braves", "atl" >>,
       << "baltimore orioles", "bal" >>, << "boston red sox", "bos" >>,
       << "chicago cubs", "chc" >>, << "chicago white sox", "cws" >>,
       << "cincinnati reds", "cin" >>, << "cleveland guardians", "cle" >>,
       << "colorado rockies", "col" >>, << "detroit tigers", "det" >>,
       << "houston astros", "hou" >>, << "kansas city royals", "kc" >>,
       << "los angeles angels", "laa" >>, << "la angels", "laa" >>,
       << "los angeles dodgers", "lad" >>, << "la dodgers", "lad" >>,
       << "miami marlins", "mia" >>, << "milwaukee brewers", "mil" >>,
       << "minnesota twins", "min" >>, << "new york mets", "nym" >>,
       << "new york yankees", "nyy" >>, << "oakland athletics", "ath" >>,
       << "philadelphia phillies", "phi" >>,
       << "pittsburgh pirates", "pit" >>, << "san diego padres", "sd" >>,
       << "san francisco giants", "sf" >>, << "seattle mariners", "sea" >>,
       << "st louis cardinals", "stl" >>, << "st. louis cardinals", "stl" >>,
       << "tampa bay rays", "tb" >>, << "texas rangers", "tex" >>,
       << "toronto blue jays", "tor" >>, << "washington nationals", "wsh" >> >>

\* college mascots to remove, in the order of the list
COLLEGE_MASCOTS ==
    <<
       "wildcats", "bulldogs", "tigers", "eagles", "bears", "lions",
       "panthers", "hawks", "huskies", "cardinals", "knights", "bearcats",
       "buckeyes", "wolverines", "spartans", "gophers", "badgers",
       "hawkeyes", "cyclones", "jayhawks", "sooners", "longhorns", "aggies",
       "razorbacks", "rebels", "volunteers", "commodores", "gamecocks",
       "gators", "seminoles", "hurricanes", "cavaliers", "hokies",
       "wolfpack", "tar heels", "blue devils", "demon deacons", "orange",
       "yellow jackets", "fighting irish", "trojans", "bruins", "ducks",
       "beavers", "cougars", "utes", "buffaloes", "sun devils",
       "golden bears", "cardinal", "mountaineers", "red raiders",
       "horned frogs", "mustangs", "owls", "bobcats", "roadrunners",
       "miners", "lobos", "aztecs", "falcons", "rams", "broncos", "cowboys",
       "cornhuskers", "bluejays", "shockers", "pirates", "billikens",
       "musketeers", "hoyas", "friars", "red storm", "peacocks", "gaels",
       "toreros", "dons", "waves", "anteaters", "matadors", "titans",
       "highlanders", "hornets", "braves", "jaguars", "golden lions",
       "bison", "midshipmen", "black knights", "scarlet knights",
       "nittany lions", "terrapins", "hoosiers", "boilermakers",
       "fighting illini", "golden flashes", "redhawks", "rockets",
       "chippewas", "bulls", "zips", "penguins", "thundering herd", "flames" >>

\* college code and the names that stand for it, in the order of the dict
COLLEGE_ABBREV_MAP ==
    <<
       << "usc", << "southern california", "usc trojans", "trojans" >> >>,
       << "ucla", << "ucla", "ucla bruins", "bruins" >> >>,
       << "osu", << "ohio state", "ohio st", "buckeyes" >> >>,
       << "mich", << "michigan", "wolverines" >> >>,
       << "msu", << "michigan state", "michigan st", "spartans" >> >>,
       << "psu", << "penn state", "penn st", "nittany lions" >> >>,
       << "okla", << "oklahoma", "sooners" >> >>,
       << "tex", << "texas", "longhorns" >> >>,
       << "tamu", << "texas a&m", "texas am", "aggies" >> >>,
       << "tcu", << "tcu", "horned frogs" >> >>,
       << "bay", << "baylor", "bears" >> >>,
       << "ttu", << "texas tech", "red raiders" >> >>,
       << "ku", << "kansas", "jayhawks" >> >>,
       << "ksu", << "kansas state", "kansas st", "wildcats" >> >>,
       << "isu", << "iowa state", "iowa st", "cyclones" >> >>,
       << "iowa", << "iowa", "hawkeyes" >> >>,
       << "neb", << "nebraska", "cornhuskers" >> >>,
       << "wisc", << "wisconsin", "badgers" >> >>,
       << "minn", << "minnesota", "golden gophers", "gophers" >> >>,
       << "ill", << "illinois", "fighting illini" >> >>,
       << "ind", << "indiana", "hoosiers" >> >>,
       << "pur", << "purdue", "boilermakers" >> >>,
       << "nw", << "northwestern", "wildcats" >> >>,
       << "rut", << "rutgers", "scarlet knights" >> >>,
       << "md", << "maryland", "terrapins", "terps" >> >>,
       << "unc", << "north carolina", "tar heels" >> >>,
       << "duke", << "duke", "blue devils" >> >>,
       << "ncsu", << "nc state", "north carolina state", "wolfpack" >> >>,
       << "wake", << "wake forest", "demon deacons" >> >>,
       << "uva", << "virginia", "cavaliers", "wahoos" >> >>,
       << "vt", << "virginia tech", "hokies" >> >>,
       << "clem", << "clemson", "tigers" >> >>,
       << "lou", << "louisville", "cardinals" >> >>,
       << "pitt", << "pittsburgh", "pitt", "panthers" >> >>,
       << "syr", << "syracuse", "orange" >> >>,
       << "bc", << "boston college", "eagles" >> >>,
       << "nd", << "notre dame", "fighting irish" >> >>,
       << "fsu", << "florida state", "florida st", "seminoles" >> >>,
       << "fla", << "florida", "gators" >> >>,
       << "uga", << "georgia", "bulldogs" >> >>,
       << "aub", << "auburn", "tigers" >> >>,
       << "bama", << "alabama", "crimson tide" >> >>,
       << "lsu", << "lsu", "louisiana state", "tigers" >> >>,
       << "miss", << "ole miss", "mississippi", "rebels" >> >>,
       << "msst", << "mississippi state", "mississippi st", "bulldogs" >> >>,
       << "ark", << "arkansas", "razorbacks" >> >>,
       << "mizzou", << "missouri", "tigers" >> >>,
       << "uk", << "kentucky", "wildcats" >> >>,
       << "tenn", << "tennessee", "volunteers", "vols" >> >>,
       << "van", << "vanderbilt", "commodores" >> >>,
       << "scar", << "south carolina", "gamecocks" >> >>,
       << "ore", << "oregon", "ducks" >> >>,
       << "orst", << "oregon state", "oregon st", "beavers" >> >>,
       << "wash", << "washington", "huskies" >> >>,
       << "wsu", << "washington state", "washington st", "cougars" >> >>,
       << "stan", << "stanford", "cardinal" >> >>,
       << "cal", << "california", "cal", "golden bears" >> >>,
       << "ariz", << "arizona", "wildcats" >> >>,
       << "asu", << "arizona state", "arizona st", "sun devils" >> >>,
       << "utah", << "utah", "utes" >> >>,
       << "colo", << "colorado", "buffaloes", "buffs" >> >>,
       << "byu", << "byu", "brigham young", "cougars" >> >>,
       << "ucf", << "ucf", "central florida", "knights" >> >>,
       << "cin", << "cincinnati", "bearcats" >> >>,
       << "hou", << "houston", "cougars" >> >>,
       << "wvu", << "west virginia", "mountaineers" >> >>,
       << "unlv", << "unlv", "rebels" >> >>,
       << "sdsu", << "san diego state", "san diego st", "aztecs" >> >>,
       << "bsu", << "boise state", "boise st", "broncos" >> >>,
       << "fres", << "fresno state", "fresno st", "bulldogs" >> >>,
       << "sjsu", << "san jose state", "san jose st", "spartans" >> >>,
       << "csu", << "colorado state", "colorado st", "rams" >> >>,
       << "wyo", << "wyoming", "cowboys" >> >>,
       << "unm", << "new mexico", "lobos" >> >>,
       << "afa", << "air force", "falcons" >> >>,
       << "navy", << "navy", "midshipmen" >> >>,
       << "army", << "army", "black knights" >> >>,
       << "smc", << "saint marys", "saint mary's", "gaels" >> >>,
       << "sf", << "san francisco", "dons" >> >>,
       << "gonz", << "gonzaga", "bulldogs", "zags" >> >>,
       << "creigh", << "creighton", "bluejays" >> >>,
       << "marq", << "marquette", "golden eagles" >> >>,
       << "nova", << "villanova", "wildcats" >> >>,
       << "gtown", << "georgetown", "hoyas" >> >>,
       << "shu", << "seton hall", "pirates" >> >>,
       << "prov", << "providence", "friars" >> >>,
       << "xav", << "xavier", "musketeers" >> >>,
       << "but", << "butler", "bulldogs" >> >>,
       << "conn", << "connecticut", "uconn", "huskies" >> >>,
       << "mem", << "memphis", "tigers" >> >>,
       << "smu", << "smu", "southern methodist", "mustangs" >> >>,
       << "tulsa", << "tulsa", "golden hurricane" >> >>,
       << "tulane", << "tulane", "green wave" >> >> >>

(***************************************************************************)
(* core/event_matcher.py: names, school keys and codes                     *)
(***************************************************************************)
\* the elements of a list
Elements(list) == {list[i] : i \in DOMAIN list}

\* key in table, for a table of pairs
HasKey(table, key) == \E i \in DOMAIN table : table[i][1] = key

\* table[key]
ValueAt(table, key) == table[CHOOSE i \in DOMAIN table : table[i][1] = key][2]

\* the city prefixes a lower-case name starts with, a blank after them
CityPrefixesOf(normalized) ==
    {prefix \in Elements(CITY_PREFIXES) : StartsWith(normalized, prefix \o " ")}

\* the loop over the prefixes, longest first: the first one found is cut off
WithoutCity(normalized, found) ==
    IF found = {} THEN normalized
    ELSE Strip(From(normalized, Len(CHOOSE prefix \in found : TRUE)))

normalize_team_name(name) ==
    IF name = "" THEN ""
    ELSE CHOOSE words \in
             {JoinWords(Split(WithoutCity(normalized, Longest(CityPrefixesOf(normalized))))) :
                 normalized \in {Lower(Strip(name))}} : TRUE

\* the return of get_team_abbrev once the full name is not in its table
NicknameAbbrev(normalized) ==
    IF HasKey(NICKNAME_TO_ABBREV, normalized)
    THEN ValueAt(NICKNAME_TO_ABBREV, normalized)
    ELSE ""

\* get_team_abbrev from team_lower
AbbrevOfName(team_name, team_lower) ==
    IF HasKey(FULL_NAME_TO_ABBREV, team_lower)
    THEN ValueAt(FULL_NAME_TO_ABBREV, team_lower)
    ELSE CHOOSE abbrev \in
             {NicknameAbbrev(normalized) :
                 normalized \in {normalize_team_name(team_name)}} : TRUE

get_team_abbrev(team_name) ==
    CHOOSE abbrev \in
        {AbbrevOfName(team_name, team_lower) :
            team_lower \in {Strip(Lower(team_name))}} : TRUE

\* the mascots a lower-case name ends with, a blank before them
MascotsOf(name_lower) ==
    {mascot \in Elements(COLLEGE_MASCOTS) : EndsWith(name_lower, " " \o mascot)}

\* the loop over the mascots, longest first: the first one found is cut off
WithoutMascot(name_lower, found) ==
    IF found = {} THEN name_lower
    ELSE Strip(SubSeq(name_lower, 1,
                      Len(name_lower) - Len(CHOOSE mascot \in found : TRUE) - 1))

\* the apostrophes dropped, "state" and "st." left as they are
SchoolKey_StateKept(name_lower) ==
    Strip(Replace(Replace(name_lower, "'s", "s"), "'", ""))

\* the four replacements and the last strip
SchoolKey(name_lower) ==
    Strip(Replace(Replace(Replace(Replace(name_lower, "st.", "st"),
                                  "state", "st"),
                          "'s", "s"),
                  "'", ""))

extract_college_school_name(vegas_name) ==
    IF vegas_name = "" THEN ""
    ELSE SchoolKey(WithoutMascot(Strip(Lower(vegas_name)),
                                 Longest(MascotsOf(Strip(Lower(vegas_name))))))

\* name.lower() for the names of every entry of COLLEGE_ABBREV_MAP
CollegeNames ==
    [i \in DOMAIN COLLEGE_ABBREV_MAP |->
        [j \in DOMAIN COLLEGE_ABBREV_MAP[i][2] |-> Lower(COLLEGE_ABBREV_MAP[i][2][j])]]

\* school == name or school.startswith(name) or name in school, for some name
\* of the entry
StandsFor(names, school) ==
    \E j \in DOMAIN names :
        \/ school = names[j]
        \/ StartsWith(school, names[j])
        \/ Contains(names[j], school)

\* the code made up for a school that no entry stands for
MadeUpAbbrev(school, words) ==
    IF Len(words) = 1
    THEN (IF Len(school) >= 3 THEN SubSeq(school, 1, 3) ELSE school)
    ELSE Initials(words)

\* the first entry, in the order of the dict, that stands for the school
SchoolAbbrev(school, entries) ==
    IF entries = {} THEN MadeUpAbbrev(school, Split(school))
    ELSE COLLEGE_ABBREV_MAP[CHOOSE i \in entries : \A j \in entries : i <= j][1]

\* the code of a school key
AbbrevOfSchool(school) ==
    CHOOSE abbrev \in
        {SchoolAbbrev(school, entries) :
            entries \in {{i \in DOMAIN CollegeNames :
                             StandsFor(CollegeNames[i], school)}}} : TRUE

get_college_abbrev(team_name) ==
    CHOOSE abbrev \in
        {AbbrevOfSchool(school) :
            school \in {extract_college_school_name(team_name)}} : TRUE

(***************************************************************************)
(* The name functions on their own                                          *)
(***************************************************************************)
\* names of pro teams, of college teams, of teams in no table, and names
\* with blanks, capitals and apostrophes in odd places
TeamNames ==
    {"Los Angeles Lakers", "Boston Celtics", "  LA Clippers ", "LA  Lakers",
     "Lakers", "los angeles  kings", "New York", "New York Rangers",
     "St. Louis Blues", "Golden State Warriors", "Portland Trail Blazers",
     "Minnesota Wild", "Utah Hockey Club", "Oakland A's", "la",
     "Springfield Isotopes", "Shelbyville", "Ab", "", "  ",
     "Ohio State Buckeyes", "Ohio Bobcats", "Michigan Wolverines",
     "Michigan State Spartans", "Saint Mary's Gaels", "Texas A&M Aggies",
     "St. John's Red Storm", "Duke Blue Devils", "Notre Dame Fighting Irish",
     "Penn State Nittany Lions", "Army Black Knights", "Syracuse Orange",
     "Stanford Cardinal", "Louisville Cardinals", "Florida Gulf Coast",
     "Gonzaga", "Iowa", "State"}

NameFunctions ==
    {"normalize_team_name", "get_team_abbrev", "extract_college_school_name",
     "get_college_abbrev"}

InitNames ==
    /\ ValueFinderInit
    /\ call \in [op : NameFunctions, name : TeamNames]

\* a call of a name function returns value
NameReturns(op, value) ==
    /\ pc = "call"
    /\ call.op = op
    /\ result' = value
    /\ raised' = ""
    /\ pc' = "done"
    /\ UNCHANGED << min_edge, min_bookmakers, call, opportunities, outside >>

CallNormalizeTeamName ==
    NameReturns("normalize_team_name", normalize_team_name(call.name))

CallGetTeamAbbrev ==
    NameReturns("get_team_abbrev", get_team_abbrev(call.name))

CallExtractSchoolName ==
    NameReturns("extract_college_school_name", extract_college_school_name(call.name))

CallGetCollegeAbbrev ==
    NameReturns("get_college_abbrev", get_college_abbrev(call.name))

NextNames ==
    \/ CallNormalizeTeamName
    \/ CallGetTeamAbbrev
    \/ CallExtractSchoolName
    \/ CallGetCollegeAbbrev

SpecNames == InitNames /\ [][NextNames]_vars

\* a name function has returned for the name
NameDone(op, name) == pc = "done" /\ call.op = op /\ call.name = name

\* C18 as stated: for "Ohio State Buckeyes" extract_college_school_name
\* returns the school key "ohio" and get_college_abbrev returns "osu".
C18_OhioStateKeyIsOhio ==
    /\ NameDone("extract_college_school_name", "Ohio State Buckeyes")
           => (raised = "" /\ result = "ohio")
    /\ NameDone("get_college_abbrev", "Ohio State Buckeyes")
           => (raised = "" /\ result = "osu")

\* C18: for "Ohio State Buckeyes" extract_college_school_name returns the
\* school key "ohio st" (the mascot cut off, "state" shortened to "st") and
\* get_college_abbrev returns "osu".
C18_OhioStateKeyIsOhioSt ==
    /\ NameDone("extract_college_school_name", "Ohio State Buckeyes")
           => (raised = "" /\ result = "ohio st")
    /\ NameDone("get_college_abbrev", "Ohio State Buckeyes")
           => (raised = "" /\ result = "osu")

\* the school key of Ohio State has been worked out
C18_Witness ==
    /\ NameDone("extract_college_school_name", "Ohio State Buckeyes")
    /\ result = "ohio st"
    /\ get_college_abbrev(call.name) = "osu"

(***************************************************************************)
(* rapidfuzz: the scores of the library, read from the table fuzz          *)
(***************************************************************************)
\* fuzz.partial_ratio(s1, s2)
partial_ratio(s1, s2) == fuzz.partial_ratio[<< s1, s2 >>]

\* fuzz.ratio(s1, s2)
ratio(s1, s2) == fuzz.ratio[<< s1, s2 >>]

(***************************************************************************)
(* core/event_matcher.py: EventMatcher.match_game_winner_markets           *)
(***************************************************************************)
\* dict.get(key, default)
Get(dict, key, default) == IF key \in DOMAIN dict THEN dict[key] ELSE default

\* the keys of kalshi_games after one more market
GameIdsWith(before, game_id) ==
    IF game_id = "" \/ game_id \in Elements(before) THEN before
    ELSE Append(before, game_id)

\* the keys of kalshi_games in the order they were added
RECURSIVE GameIds(_)
GameIds(kalshi_markets) ==
    IF kalshi_markets = << >> THEN << >>
    ELSE CHOOSE ids \in
             {GameIdsWith(before, Get(kalshi_markets[Len(kalshi_markets)], "_game_id", "")) :
                 before \in {GameIds(SubSeq(kalshi_markets, 1, Len(kalshi_markets) - 1))}} : TRUE

\* kalshi_games[game_id]['markets']
RECURSIVE GameMarkets(_, _)
GameMarkets(kalshi_markets, game_id) ==
    IF kalshi_markets = << >> THEN << >>
    ELSE IF Get(Head(kalshi_markets), "_game_id", "") = game_id
    THEN << Head(kalshi_markets) >> \o GameMarkets(Tail(kalshi_markets), game_id)
    ELSE GameMarkets(Tail(kalshi_markets), game_id)

\* an entry of kalshi_games: title and sport are those of its first market
KalshiGame(game_id, markets) ==
    [game_id |-> game_id, markets |-> markets,
     title |-> Get(markets[1], "title", ""),
     sport |-> Get(markets[1], "_sport", "")]

\* kalshi_games as the list of its entries
GamesOf(kalshi_markets, ids) ==
    [k \in DOMAIN ids |-> KalshiGame(ids[k], GameMarkets(kalshi_markets, ids[k]))]

KalshiGames(kalshi_markets) ==
    CHOOSE games \in {GamesOf(kalshi_markets, ids) : ids \in {GameIds(kalshi_markets)}} : TRUE

\* the title as match_college_teams reads it
CollegeTitle(kalshi_title) ==
    Replace(Replace(Replace(Lower(kalshi_title), "st.", "st"), "'s", "s"), "'", "")

\* any(name.lower() in title_lower for name in COLLEGE_ABBREV_MAP.get(abbrev, []))
AliasInTitle(abbrev, title_lower) ==
    \E i \in DOMAIN COLLEGE_ABBREV_MAP :
        /\ COLLEGE_ABBREV_MAP[i][1] = abbrev
        /\ \E j \in DOMAIN CollegeNames[i] : Contains(CollegeNames[i][j], title_lower)

\* the same with twice the mean of the two scores when both are in the title
CollegeVerdict_TwiceTheMean(home_in_title, away_in_title, home_score, away_score) ==
    IF home_in_title /\ away_in_title
    THEN [is_match |-> TRUE, halves |-> 2 * (home_score + away_score)]
    ELSE IF home_score >= 80 /\ away_score >= 80
    THEN [is_match |-> TRUE, halves |-> home_score + away_score]
    ELSE IF (home_in_title \/ home_score >= 85) /\ (away_in_title \/ away_score >= 85)
    THEN [is_match |-> TRUE,
          halves |-> 2 * (IF away_score > home_score THEN away_score ELSE home_score)]
    ELSE [is_match |-> FALSE, halves |-> 0]

\* the return of match_college_teams, the confidence counted in halves (the
\* mean of two whole scores is a whole number of halves)
CollegeVerdict(home_in_title, away_in_title, home_score, away_score) ==
    IF home_in_title /\ away_in_title
    THEN [is_match |-> TRUE, halves |-> 200]
    ELSE IF home_score >= 80 /\ away_score >= 80
    THEN [is_match |-> TRUE, halves |-> home_score + away_score]
    ELSE IF (home_in_title \/ home_score >= 85) /\ (away_in_title \/ away_score >= 85)
    THEN [is_match |-> TRUE,
          halves |-> 2 * (IF away_score > home_score THEN away_score ELSE home_score)]
    ELSE [is_match |-> FALSE, halves |-> 0]

\* match_college_teams from the two school keys and the title it reads
CollegeMatched(vegas_home, vegas_away, home_school, away_school, title_lower) ==
    CollegeVerdict(
        Contains(home_school, title_lower)
            \/ AliasInTitle(get_college_abbrev(vegas_home), title_lower),
        Contains(away_school, title_lower)
            \/ AliasInTitle(get_college_abbrev(vegas_away), title_lower),
        partial_ratio(home_school, title_lower),
        partial_ratio(away_school, title_lower))

match_college_teams(vegas_home, vegas_away, kalshi_title) ==
    CHOOSE verdict \in
        {CollegeMatched(vegas_home, vegas_away, texts[1], texts[2], texts[3]) :
            texts \in {<< extract_college_school_name(vegas_home),
                          extract_college_school_name(vegas_away),
                          CollegeTitle(kalshi_title) >>}} : TRUE

calculate_team_match_score(vegas_team, kalshi_text) ==
    partial_ratio(normalize_team_name(vegas_team), Lower(kalshi_text))

\* what the loop over the events works out for an event before it looks at
\* the games
TeamsOf(vegas_event, is_college) ==
    [vegas_home |-> Get(vegas_event, "home_team", ""),
     vegas_away |-> Get(vegas_event, "away_team", ""),
     is_college |-> is_college,
     home_abbrev |-> IF is_college
                     THEN get_college_abbrev(Get(vegas_event, "home_team", ""))
                     ELSE get_team_abbrev(Get(vegas_event, "home_team", "")),
     away_abbrev |-> IF is_college
                     THEN get_college_abbrev(Get(vegas_event, "away_team", ""))
                     ELSE get_team_abbrev(Get(vegas_event, "away_team", "")),
     home_school |-> IF is_college
                     THEN extract_college_school_name(Get(vegas_event, "home_team", ""))
                     ELSE normalize_team_name(Get(vegas_event, "home_team", "")),
     away_school |-> IF is_college
                     THEN extract_college_school_name(Get(vegas_event, "away_team", ""))
                     ELSE normalize_team_name(Get(vegas_event, "away_team", ""))]

EventTeams(vegas_event) ==
    CHOOSE teams \in
        {TeamsOf(vegas_event, is_college) :
            is_college \in {Contains("ncaa", Lower(Get(vegas_event, "sport_key", "")))}} : TRUE

\* home_market and away_market before the loop over the markets of a game
Unassigned == [home_market |-> None, away_market |-> None]

\* one iteration of the loop over the markets of a game, college branch
AssignedCollege(before, m, team_code, teams) ==
    IF team_code = teams.home_abbrev THEN [before EXCEPT !.home_market = m]
    ELSE IF team_code = teams.away_abbrev THEN [before EXCEPT !.away_market = m]
    ELSE IF \/ ratio(team_code, teams.home_abbrev) >= 80
            \/ StartsWith(teams.home_school, team_code)
    THEN [before EXCEPT !.home_market = m]
    ELSE IF \/ ratio(team_code, teams.away_abbrev) >= 80
            \/ StartsWith(teams.away_school, team_code)
    THEN [before EXCEPT !.away_market = m]
    ELSE before

\* one iteration of the loop over the markets of a game, the other branch
AssignedPro(before, m, team_code, teams) ==
    IF team_code = teams.home_abbrev THEN [before EXCEPT !.home_market = m]
    ELSE IF team_code = teams.away_abbrev THEN [before EXCEPT !.away_market = m]
    ELSE before

AssignedWith(before, m, team_code, teams) ==
    IF teams.is_college THEN AssignedCollege(before, m, team_code, teams)
    ELSE AssignedPro(before, m, team_code, teams)

\* home_market and away_market after the loop over the markets of a game
RECURSIVE Assigned(_, _)
Assigned(markets, teams) ==
    IF markets = << >> THEN Unassigned
    ELSE CHOOSE after \in
             {AssignedWith(before[1], markets[Len(markets)], before[2], teams) :
                 before \in {<< Assigned(SubSeq(markets, 1, Len(markets) - 1), teams),
                                Lower(Get(markets[Len(markets)], "_team_code", "")) >>}} : TRUE

\* the last word of a name, nothing for an empty name
LastWord(school) ==
    IF school = "" THEN "" ELSE Split(school)[Len(Split(school))]

\* the same without the code looked for in the title
InTitle_NamesOnly(school, abbrev, title_lower) ==
    \/ Contains(school, title_lower)
    \/ Contains(LastWord(school), title_lower)

\* home_in_title, and away_in_title likewise
InTitle(school, abbrev, title_lower) ==
    \/ Contains(school, title_lower)
    \/ Contains(abbrev, Replace(title_lower, " ", ""))
    \/ Contains(LastWord(school), title_lower)

\* the same with one side in the title being enough
ProVerdict_EitherSide(home_in_title, away_in_title, home_score, away_score) ==
    [is_match |-> (home_in_title \/ away_in_title)
                      \/ (home_score >= 60 /\ away_score >= 60),
     combined_score |-> home_score + away_score
                            + (IF home_in_title THEN 50 ELSE 0)
                            + (IF away_in_title THEN 50 ELSE 0)]

\* the conditions of a game being looked at and its combined_score, for an
\* event that is not a college event
ProVerdict(home_in_title, away_in_title, home_score, away_score) ==
    [is_match |-> (home_in_title /\ away_in_title)
                      \/ (home_score >= 60 /\ away_score >= 60),
     combined_score |-> home_score + away_score
                            + (IF home_in_title THEN 50 ELSE 0)
                            + (IF away_in_title THEN 50 ELSE 0)]

\* the same for a college event: combined_score = match_confidence * 2
CollegeCombined(verdict) ==
    [is_match |-> verdict.is_match, combined_score |-> verdict.halves]

\* the same from title_lower
ProVerdictOf(game, teams, title_lower) ==
    ProVerdict(InTitle(teams.home_school, teams.home_abbrev, title_lower),
               InTitle(teams.away_school, teams.away_abbrev, title_lower),
               calculate_team_match_score(teams.vegas_home, game.title),
               calculate_team_match_score(teams.vegas_away, game.title))

GameVerdict(game, teams) ==
    IF teams.is_college
    THEN CollegeCombined(match_college_teams(teams.vegas_home, teams.vegas_away,
                                             game.title))
    ELSE CHOOSE verdict \in
             {ProVerdictOf(game, teams, title_lower) :
                 title_lower \in {Lower(game.title)}} : TRUE

\* the same with a best_score kept from the calls before
NoBest_Carried == [best_match |-> None, best_score |-> 100 * Len(earlier)]

\* best_match and best_score before the loop over the games
NoBest == [best_match |-> None, best_score |-> 0]

\* the same without the test of home_market or away_market
BestWith_Unchecked(before, game, combined_score, assigned) ==
    [best_match |-> [game_id |-> game.game_id,
                     home_market |-> assigned.home_market,
                     away_market |-> assigned.away_market,
                     title |-> game.title],
     best_score |-> combined_score]

\* if home_market or away_market: the game becomes the best match
BestWith(before, game, combined_score, assigned) ==
    IF assigned.home_market # None \/ assigned.away_market # None
    THEN [best_match |-> [game_id |-> game.game_id,
                          home_market |-> assigned.home_market,
                          away_market |-> assigned.away_market,
                          title |-> game.title],
          best_score |-> combined_score]
    ELSE before

\* one iteration of the loop over kalshi_games
BestTried(before, game, verdict, teams) ==
    IF verdict.is_match /\ verdict.combined_score > before.best_score
    THEN CHOOSE best \in
             {BestWith(before, game, verdict.combined_score, assigned) :
                 assigned \in {Assigned(game.markets, teams)}} : TRUE
    ELSE before

\* best_match and best_score after the loop over kalshi_games
RECURSIVE Best(_, _)
Best(games, teams) ==
    IF games = << >> THEN NoBest
    ELSE CHOOSE best \in
             {BestTried(before[1], games[Len(games)], before[2], teams) :
                 before \in {<< Best(SubSeq(games, 1, Len(games) - 1), teams),
                                GameVerdict(games[Len(games)], teams) >>}} : TRUE

\* matches.append({...}) if best_match
MatchesWith(vegas_event, best_match) ==
    IF best_match = None THEN << >>
    ELSE << [vegas_event |-> vegas_event,
             kalshi_home_market |-> best_match.home_market,
             kalshi_away_market |-> best_match.away_market,
             game_id |-> best_match.game_id] >>

\* one iteration of the loop over vegas_events: the matches it appends
EventMatches(vegas_event, games) ==
    CHOOSE matches \in
        {MatchesWith(vegas_event, Best(games, teams).best_match) :
            teams \in {EventTeams(vegas_event)}} : TRUE

\* the loop over vegas_events
RECURSIVE MatchesOf(_, _)
MatchesOf(vegas_events, games) ==
    IF vegas_events = << >> THEN << >>
    ELSE MatchesOf(SubSeq(vegas_events, 1, Len(vegas_events) - 1), games)
         \o EventMatches(vegas_events[Len(vegas_events)], games)

match_game_winner_markets(vegas_events, kalshi_markets) ==
    CHOOSE matches \in
        {MatchesOf(vegas_events, games) : games \in {KalshiGames(kalshi_markets)}} : TRUE

(***************************************************************************)
(* The events, the listings and the scores the matcher is given            *)
(***************************************************************************)
MaxEvents == 2

MaxListings == 2

\* the most texts a call may ask scores about
MaxTexts == 4

\* the scores the library may give two texts: under every limit the matcher
\* uses, between the limits 60 and 80, and over all of them
ScoreLevels == {0, 70, 100}

GameEvent(id, sport_key, home_team, away_team) ==
    [id |-> id, sport_key |-> sport_key, home_team |-> home_team,
     away_team |-> away_team, bookmakers |-> << >>]

\* the Lakers at the Celtics
LakersGame ==
    GameEvent("ev_lal_bos", "basketball_nba", "Boston Celtics", "Los Angeles Lakers")

\* a home team that no table knows
IsotopesGame ==
    GameEvent("ev_iso_bos", "basketball_nba", "Springfield Isotopes", "Boston Celtics")

\* a college game
BuckeyesGame ==
    GameEvent("ev_osu_mich", "basketball_ncaab", "Michigan Wolverines",
              "Ohio State Buckeyes")

EventPool == {LakersGame, IsotopesGame, BuckeyesGame}

\* a listing as the Kalshi client hands it over
KalshiMarket(ticker, game_id, team_code, title) ==
    [ticker |-> ticker, title |-> title, yes_ask |-> 45, _sport |-> "kxgame",
     _game_id |-> game_id, _team_code |-> team_code]

ListLAL == KalshiMarket("KXGAME-26JAN01LALBOS-LAL", "26JAN01LALBOS", "LAL", "LAL @ BOS")

ListBOS == KalshiMarket("KXGAME-26JAN01LALBOS-BOS", "26JAN01LALBOS", "BOS", "LAL @ BOS")

\* a listing of the same game without a side code
ListNoCode ==
    [ticker |-> "KXGAME-26JAN01LALBOS", title |-> "LAL @ BOS", yes_ask |-> 45,
     _sport |-> "kxgame", _game_id |-> "26JAN01LALBOS"]

\* a listing without a game id
ListNoGame == KalshiMarket("KXGAME", "", "LAL", "LAL @ BOS")

\* another game
ListNYK ==
    KalshiMarket("KXGAME-26JAN01NYKMIA-NYK", "26JAN01NYKMIA", "NYK", "New York at Miami")

\* the college game, under its code and under one that is only like it
ListOSU ==
    KalshiMarket("KXGAME-26JAN01OSUMICH-OSU", "26JAN01OSUMICH", "OSU",
                 "Ohio St. at Michigan")

ListOHST ==
    KalshiMarket("KXGAME-26JAN01OSUMICH-OHST", "26JAN01OSUMICH", "OHST",
                 "Ohio St. at Michigan")

ListingPool == {ListLAL, ListBOS, ListNoCode, ListNoGame, ListNYK, ListOSU, ListOHST}

\* is_college
IsCollege(vegas_event) == Contains("ncaa", Lower(Get(vegas_event, "sport_key", "")))

\* the texts partial_ratio is asked about for an event and a title
ScoredTexts(vegas_event, title) ==
    IF IsCollege(vegas_event)
    THEN {<< extract_college_school_name(Get(vegas_event, "home_team", "")),
             CollegeTitle(title) >>,
          << extract_college_school_name(Get(vegas_event, "away_team", "")),
             CollegeTitle(title) >>}
    ELSE {<< normalize_team_name(Get(vegas_event, "home_team", "")), Lower(title) >>,
          << normalize_team_name(Get(vegas_event, "away_team", "")), Lower(title) >>}

PartialTexts(vegas_events, kalshi_markets) ==
    UNION {ScoredTexts(vegas_event, game.title) :
               vegas_event \in Elements(vegas_events),
               game \in Elements(KalshiGames(kalshi_markets))}

\* the texts ratio may be asked about for a college event and a side code
RatedTexts(team_code, abbrevs) ==
    IF team_code \in abbrevs THEN {}
    ELSE {<< team_code, abbrev >> : abbrev \in abbrevs}

RatioTexts(vegas_events, kalshi_markets) ==
    UNION {RatedTexts(Lower(Get(m, "_team_code", "")),
                      {get_college_abbrev(Get(vegas_event, "home_team", "")),
                       get_college_abbrev(Get(vegas_event, "away_team", ""))}) :
               vegas_event \in {e \in Elements(vegas_events) : IsCollege(e)},
               m \in {l \in Elements(kalshi_markets) : Get(l, "_game_id", "") # ""}}

\* every table of scores for the texts of a call
ScoreTables(vegas_events, kalshi_markets) ==
    [partial_ratio : [PartialTexts(vegas_events, kalshi_markets) -> ScoreLevels],
     ratio : [RatioTexts(vegas_events, kalshi_markets) -> ScoreLevels]]

MatcherCalls ==
    {c \in [op : {"match_game_winner_markets"}, self : {"finder.matcher"},
            vegas_events : ListsUpTo(EventPool, MaxEvents),
            kalshi_markets : ListsUpTo(ListingPool, MaxListings)] :
        Cardinality(PartialTexts(c.vegas_events, c.kalshi_markets))
            + Cardinality(RatioTexts(c.vegas_events, c.kalshi_markets)) <= MaxTexts}

\* the state after construction, but for the call and the scores
Constructed ==
    /\ min_edge = MIN_NET_EDGE
    /\ min_bookmakers = MIN_BOOKMAKERS
    /\ pc = "call"
    /\ opportunities = << >>
    /\ result = None
    /\ raised = ""
    /\ match_threshold = [matcher \in Matchers |-> 80]
    /\ earlier = << >>
    /\ export_dir = FALSE
    /\ history_file = NoFile
    /\ ClientsInit

InitMatcher ==
    /\ Constructed
    /\ call \in MatcherCalls
    /\ fuzz \in ScoreTables(call.vegas_events, call.kalshi_markets)

CallMatcher ==
    /\ pc = "call"
    /\ call.op = "match_game_winner_markets"
    /\ result' = match_game_winner_markets(call.vegas_events, call.kalshi_markets)
    /\ raised' = ""
    /\ pc' = "done"
    /\ UNCHANGED << min_edge, min_bookmakers, call, opportunities, outside >>

SpecMatcher == InitMatcher /\ [][CallMatcher]_vars

MatcherDone == pc = "done" /\ call.op = "match_game_winner_markets"

(***************************************************************************)
(* C15: what the matcher returns for an event                              *)
(***************************************************************************)
\* the game passes the test of its branch for the event
GameQualifies(game, vegas_event) ==
    \E teams \in {EventTeams(vegas_event)} : GameVerdict(game, teams).is_match

\* the loop over the markets of the game sets a side for the event
GivesListing(game, vegas_event) ==
    \E teams \in {EventTeams(vegas_event)} : Assigned(game.markets, teams) # Unassigned

\* the event has a pair in the matches
Paired(vegas_event, matches) ==
    \E k \in DOMAIN matches : matches[k].vegas_event = vegas_event

\* C15: match_game_winner_markets raises nothing; every pair it returns has
\* its home listing or its away listing set; an event none of whose games
\* both qualifies and gives a listing to a side has no pair; and with no
\* events or no listings there are no pairs.
C15_PairsHaveAListing ==
    MatcherDone =>
        /\ raised = ""
        /\ \A k \in DOMAIN result :
               result[k].kalshi_home_market # None \/ result[k].kalshi_away_market # None
        /\ \A games \in {KalshiGames(call.kalshi_markets)} :
               \A vegas_event \in Elements(call.vegas_events) :
                   Paired(vegas_event, result) =>
                       \E game \in Elements(games) :
                           /\ GameQualifies(game, vegas_event)
                           /\ GivesListing(game, vegas_event)
        /\ (call.vegas_events = << >> \/ call.kalshi_markets = << >>) => result = << >>

\* Two events against the one listing LAL of the game "LAL @ BOS": the first
\* gets a pair with only its away side set, the second qualifies for the game
\* but is given no listing and has no pair.
C15_Witness ==
    /\ MatcherDone
    /\ call.vegas_events = << LakersGame, IsotopesGame >>
    /\ call.kalshi_markets = << ListLAL >>
    /\ GameQualifies(KalshiGames(call.kalshi_markets)[1], IsotopesGame)
    /\ ~ GivesListing(KalshiGames(call.kalshi_markets)[1], IsotopesGame)
    /\ result = << [vegas_event |-> LakersGame, kalshi_home_market |-> None,
                    kalshi_away_market |-> ListLAL, game_id |-> "26JAN01LALBOS"] >>

(***************************************************************************)
(* C17: "Los Angeles Lakers" against the title "LAL @ BOS"                 *)
(***************************************************************************)
\* an event that is not a college event, the Lakers against a team with the
\* code "bos"
LakersAgainstBos(vegas_event) ==
    /\ ~ IsCollege(vegas_event)
    /\ \/ /\ Get(vegas_event, "home_team", "") = "Los Angeles Lakers"
          /\ get_team_abbrev(Get(vegas_event, "away_team", "")) = "bos"
       \/ /\ Get(vegas_event, "away_team", "") = "Los Angeles Lakers"
          /\ get_team_abbrev(Get(vegas_event, "home_team", "")) = "bos"

\* the game has a listing with the side code LAL or BOS
HasLalOrBos(game) ==
    \E k \in DOMAIN game.markets :
        Lower(Get(game.markets[k], "_team_code", "")) \in {"lal", "bos"}

\* the pair of the event is with the game
PairedWith(vegas_event, game_id, matches) ==
    \E k \in DOMAIN matches :
        matches[k].vegas_event = vegas_event /\ matches[k].game_id = game_id

\* the names the matcher works out for the Lakers' side of the event
LakersSide(teams) ==
    IF teams.vegas_home = "Los Angeles Lakers"
    THEN [school |-> teams.home_school, abbrev |-> teams.home_abbrev]
    ELSE [school |-> teams.away_school, abbrev |-> teams.away_abbrev]

\* the side has the code "lal", which is in the title without its spaces,
\* while neither its normalized name nor the last word of it is in the title
InTitleByCodeOnly(side, title_lower) ==
    /\ side.abbrev = "lal"
    /\ ~ Contains(side.school, title_lower)
    /\ ~ Contains(LastWord(side.school), title_lower)
    /\ Contains(side.abbrev, Replace(title_lower, " ", ""))
    /\ InTitle(side.school, side.abbrev, title_lower)

\* C17: for an event that is not a college event, the Lakers against a team
\* with the code "bos", and a game titled "LAL @ BOS" that has a listing with
\* the side code LAL or BOS: the code of "Los Angeles Lakers" is "lal", the
\* side counts as in the title through the code alone, the game qualifies
\* whatever the scores, and the event has a pair: a pair with that game when
\* no other game has such a listing.
C17_LakersMatchedByCode ==
    MatcherDone =>
        \A vegas_event \in Elements(call.vegas_events) :
            LakersAgainstBos(vegas_event) =>
                \A games \in {KalshiGames(call.kalshi_markets)} :
                    \A game \in Elements(games) :
                        (game.title = "LAL @ BOS" /\ HasLalOrBos(game))
                            => /\ \E teams \in {EventTeams(vegas_event)} :
                                      InTitleByCodeOnly(LakersSide(teams), Lower(game.title))
                               /\ GameQualifies(game, vegas_event)
                               /\ Paired(vegas_event, result)
                               /\ (\A other \in Elements(games) \ {game} :
                                       ~ HasLalOrBos(other))
                                      => PairedWith(vegas_event, game.game_id, result)

\* The Lakers at the Celtics against another game and the listing BOS of
\* "LAL @ BOS", with every score 0: the pair is with "LAL @ BOS".
C17_Witness ==
    /\ MatcherDone
    /\ call.vegas_events = << LakersGame >>
    /\ call.kalshi_markets = << ListNYK, ListBOS >>
    /\ \A texts \in DOMAIN fuzz.partial_ratio : fuzz.partial_ratio[texts] = 0
    /\ result = << [vegas_event |-> LakersGame, kalshi_home_market |-> ListBOS,
                    kalshi_away_market |-> None, game_id |-> "26JAN01LALBOS"] >>

(***************************************************************************)
(* C19: a team no table knows                                              *)
(***************************************************************************)
\* the side counts as in the title on its name alone
NameInTitle(school, title_lower) ==
    Contains(school, title_lower) \/ Contains(LastWord(school), title_lower)

\* the pairs of the event have no home listing
NoHomeListing(vegas_event, matches) ==
    \A k \in DOMAIN matches :
        matches[k].vegas_event = vegas_event => matches[k].kalshi_home_market = None

\* the pairs of the event have no away listing
NoAwayListing(vegas_event, matches) ==
    \A k \in DOMAIN matches :
        matches[k].vegas_event = vegas_event => matches[k].kalshi_away_market = None

\* C19: for an event that is not a college event, a side whose name
\* get_team_abbrev gives the empty code counts as in the title of a game only
\* when its name does, so that the condition of the game and its
\* combined_score are those of the name and the scores alone, and no pair of
\* the event has a listing on that side.
C19_EmptyCodeNeverCounts ==
    MatcherDone =>
        \A games \in {KalshiGames(call.kalshi_markets)} :
            \A vegas_event \in {e \in Elements(call.vegas_events) : ~ IsCollege(e)} :
                \A teams \in {EventTeams(vegas_event)} :
                    /\ teams.home_abbrev = "" =>
                           /\ \A game \in Elements(games) :
                                  InTitle(teams.home_school, "", Lower(game.title))
                                      <=> NameInTitle(teams.home_school, Lower(game.title))
                           /\ NoHomeListing(vegas_event, result)
                    /\ teams.away_abbrev = "" =>
                           /\ \A game \in Elements(games) :
                                  InTitle(teams.away_school, "", Lower(game.title))
                                      <=> NameInTitle(teams.away_school, Lower(game.title))
                           /\ NoAwayListing(vegas_event, result)

\* The Isotopes against the Celtics, the one listing BOS of "LAL @ BOS" and
\* every score 0: the home team gets the empty code, its name is not in the
\* title, and the event has a pair, which it would not have on the names and
\* the scores.
C19_EmptyCodeCountsAsInTitle ==
    /\ MatcherDone
    /\ call.vegas_events = << IsotopesGame >>
    /\ call.kalshi_markets = << ListBOS >>
    /\ \A texts \in DOMAIN fuzz.partial_ratio : fuzz.partial_ratio[texts] = 0
    /\ EventTeams(IsotopesGame).home_abbrev = ""
    /\ ~ NameInTitle(EventTeams(IsotopesGame).home_school, Lower("LAL @ BOS"))
    /\ result = << [vegas_event |-> IsotopesGame, kalshi_home_market |-> None,
                    kalshi_away_market |-> ListBOS, game_id |-> "26JAN01LALBOS"] >>

(***************************************************************************)
(* C16: the matcher called again and again                                 *)
(***************************************************************************)
\* the most calls of the matcher in a run
MaxCalls == 3

\* the calls a run is made of: either matcher, one event or two, the two
\* listings of a game in either order
RepeatCalls ==
    [op : {"match_game_winner_markets"}, self : Matchers,
     vegas_events : {<< LakersGame >>, << IsotopesGame, LakersGame >>},
     kalshi_markets : {<< ListLAL, ListBOS >>, << ListBOS, ListLAL >>}]

InitCalls ==
    /\ Constructed
    /\ call \in RepeatCalls
    /\ fuzz \in ScoreTables(<< IsotopesGame, LakersGame >>, << ListLAL, ListBOS >>)

\* what is kept of a call that has returned
ReturnedCall(c, matches) ==
    [self |-> c.self, vegas_events |-> c.vegas_events,
     kalshi_markets |-> c.kalshi_markets, result |-> matches]

\* the caller takes the matches and calls a matcher again
CallMatcherAgain ==
    /\ pc = "done"
    /\ call.op = "match_game_winner_markets"
    /\ Len(earlier) < MaxCalls - 1
    /\ earlier' = Append(earlier, ReturnedCall(call, result))
    /\ call' \in RepeatCalls
    /\ result' = None
    /\ pc' = "call"
    /\ UNCHANGED << min_edge, min_bookmakers, opportunities, raised, match_threshold,
                    fuzz, export_dir, history_file, http >>

NextCalls == CallMatcher \/ CallMatcherAgain

SpecCalls == InitCalls /\ [][NextCalls]_vars

\* the call that has just returned was given what the earlier call k was
SameInputs(k) ==
    /\ earlier[k].vegas_events = call.vegas_events
    /\ earlier[k].kalshi_markets = call.kalshi_markets

Digits == "0123456789"

\* the decimal digits of a natural number, "" for zero
RECURSIVE BDecimal(_)
BDecimal(a) ==
    IF a = << >> THEN ""
    ELSE CHOOSE text \in
             {BDecimal(qr[1]) \o SubSeq(Digits, qr[2] + 1, qr[2] + 1) :
                 qr \in {BDivSmall(a, 10)}} : TRUE

\* the whole number nearest to N * 2^e, ties to even
FixedRounded(N, e) ==
    IF e >= 0 THEN BShl(N, e)
    ELSE IF BBit(N, (-e) - 1) = 1
            /\ (BLowAny(N, (-e) - 1) \/ BBit(BShr(N, -e), 0) = 1)
    THEN BAdd(BShr(N, -e), << 1 >>)
    ELSE BShr(N, -e)

\* zeros put before the digits until there are n of them
RECURSIVE ZeroPadded(_, _)
ZeroPadded(text, n) == IF Len(text) >= n THEN text ELSE ZeroPadded("0" \o text, n)

\* the sign, the digits before the point, the point, the decimals
FixedText(sg, text, decimals) ==
    (IF sg = 1 THEN "-" ELSE "")
    \o SubSeq(text, 1, Len(text) - decimals)
    \o "." \o SubSeq(text, Len(text) - decimals + 1, Len(text))

\* f"{x:.<decimals>f}"
FormatFixed(x, decimals) ==
    CHOOSE text \in
        {FixedText(x.sg, padded, decimals) :
            padded \in {ZeroPadded(BDecimal(FixedRounded(BMulSmall(x.m, 10 ^ decimals),
                                                         x.e)),
                                   decimals + 1)}} : TRUE

(***************************************************************************)
(* output/csv_export.py: append_to_history                                 *)
(***************************************************************************)
\* the most calls of append_to_history in a run
MaxAppends == 3

\* the most opportunities in a call
MaxRows == 2

fieldnames ==
    << "scan_timestamp", "sport", "home_team", "away_team", "kalshi_ticker",
       "recommended_position", "net_edge", "ev_100_contracts", "confidence" >>

\* what datetime.now().isoformat() may give
Timestamps == {"2026-01-01T12:00:00", "2026-01-01T12:05:00.000250"}

\* the row writer.writerow is given for an opportunity, in the order of the
\* field names
HistoryRow(opp, timestamp) ==
    << timestamp, opp.sport, opp.home_team, opp.away_team, opp.kalshi_ticker,
       opp.recommended_position, FormatFixed(opp.net_edge, 4),
       FormatFixed(opp.expected_value_100_contracts, 2), opp.confidence >>

\* for opp in opportunities: writer.writerow(...)
HistoryRows(opps, timestamp) ==
    [i \in DOMAIN opps |-> HistoryRow(opps[i], timestamp)]

\* a header on every call
HeaderRows_EveryCall(file_exists) == << fieldnames >>

\* if not file_exists: writer.writeheader()
HeaderRows(file_exists) == IF file_exists THEN << >> ELSE << fieldnames >>

\* the file opened with mode 'a': it is made if it is not there, what is in
\* it stays, the rest goes after it
Appended(file, rows) == [exists |-> TRUE, rows |-> file.rows \o rows]

\* the opportunities the finder returns for two matched pairs with an edge
\* on either side
FoundOpportunities ==
    SortedByNetEdge(
        LoopMatches(<< Match(Event("ev_both", ThreeQuotes), Listing("K-BOTH-H", 45),
                             Listing("K-BOTH-A", 40)),
                       Match(Event("ev_even", << QuoteEven, QuoteEven, QuoteEven >>),
                             Listing("K-EVEN-H", 45), Listing("K-EVEN-A", 45)) >>,
                    MIN_NET_EDGE, MIN_BOOKMAKERS).opportunities)

HistoryPool == {FoundOpportunities[1], FoundOpportunities[2], FoundOpportunities[4]}

HistoryCalls ==
    [op : {"append_to_history"}, opportunities : ListsUpTo(HistoryPool, MaxRows),
     filename : {"opportunity_history.csv"}]

InitHistory ==
    /\ Constructed
    /\ fuzz = NoScores
    /\ call \in HistoryCalls

append_to_history ==
    /\ pc = "call"
    /\ call.op = "append_to_history"
    /\ export_dir' = TRUE
    /\ \E timestamp \in Timestamps :
           history_file' = Appended(history_file,
                                    HeaderRows(history_file.exists)
                                    \o HistoryRows(call.opportunities, timestamp))
    /\ result' = None
    /\ raised' = ""
    /\ pc' = "done"
    /\ UNCHANGED << min_edge, min_bookmakers, call, opportunities, match_threshold,
                    fuzz, earlier, http >>

\* the program is run again and appends the opportunities of that run
AppendAgain ==
    /\ pc = "done"
    /\ call.op = "append_to_history"
    /\ Len(earlier) < MaxAppends - 1
    /\ earlier' = Append(earlier, call.opportunities)
    /\ call' \in HistoryCalls
    /\ pc' = "call"
    /\ UNCHANGED << min_edge, min_bookmakers, opportunities, result, raised,
                    match_threshold, fuzz, export_dir, history_file, http >>

NextHistory == append_to_history \/ AppendAgain

SpecHistory == InitHistory /\ [][NextHistory]_vars

HistoryDone == pc = "done" /\ call.op = "append_to_history"

\* the number of header rows in a file
HeaderCount(file) ==
    Cardinality({i \in DOMAIN file.rows : file.rows[i] = fieldnames})

\* the row is the one of the opportunity: its ticker, its teams, and its two
\* amounts to four and to two decimals
RowIsOf(row, opp) ==
    /\ row[2] = opp.sport /\ row[3] = opp.home_team /\ row[4] = opp.away_team
    /\ row[5] = opp.kalshi_ticker /\ row[6] = opp.recommended_position
    /\ row[7] = FormatFixed(opp.net_edge, 4)
    /\ row[8] = FormatFixed(opp.expected_value_100_contracts, 2)
    /\ row[9] = opp.confidence
    /\ row[1] \in Timestamps

\* C20: a step of append_to_history leaves the rows that were in the file
\* where they were and as they were, adds after them the header if the file
\* was not there and then one row for each opportunity in the order of the
\* list, and the file it leaves has one header row, the first; only the call
\* that makes the file adds a header row; no other step touches the file.
C20_HistoryIsAppendOnly ==
    [][/\ SubSeq(history_file'.rows, 1, Len(history_file.rows)) = history_file.rows
       /\ ~ append_to_history => history_file' = history_file
       /\ append_to_history =>
              /\ history_file'.exists
              /\ Len(history_file'.rows)
                     = Len(history_file.rows) + (IF history_file.exists THEN 0 ELSE 1)
                           + Len(call.opportunities)
              /\ \A i \in DOMAIN call.opportunities :
                     RowIsOf(history_file'.rows[Len(history_file'.rows)
                                                    - Len(call.opportunities) + i],
                             call.opportunities[i])
              /\ history_file'.rows[1] = fieldnames
              /\ HeaderCount(history_file') = 1
              /\ (HeaderCount(history_file') > HeaderCount(history_file))
                     <=> ~ history_file.exists]_vars

\* The third call on a file: the first wrote the header and two rows, the
\* second nothing, the third a row; the file has the header and three rows.
C20_Witness ==
    /\ HistoryDone
    /\ Len(earlier) = 2
    /\ Len(earlier[1]) = 2 /\ earlier[2] = << >> /\ Len(call.opportunities) = 1
    /\ Len(history_file.rows) = 4
    /\ history_file.rows[1] = fieldnames
    /\ RowIsOf(history_file.rows[2], earlier[1][1])
    /\ RowIsOf(history_file.rows[3], earlier[1][2])
    /\ RowIsOf(history_file.rows[4], call.opportunities[1])
    /\ history_file.rows[4][7] = "0.0826" /\ history_file.rows[4][8] = "8.26"

(***************************************************************************)
(* Several games for one event                                             *)
(***************************************************************************)
\* a later game of the same two teams whose listing has a code that is not
\* the one of the tables
ListLA == KalshiMarket("KXGAME-26JAN03LALBOS-LA", "26JAN03LALBOS", "LA", "LAL @ BOS")

\* a second listing of the game of ListLAL with the same side code
ListLALB ==
    KalshiMarket("KXGAME-26JAN01LALBOS-B-LAL", "26JAN01LALBOS", "LAL", "LAL @ BOS")

\* a game whose title names one team and misspells the other
ListTypo ==
    KalshiMarket("KXGAME-26JAN04LALBOS-LAL", "26JAN04LALBOS", "LAL", "Lakers vs Celtic")

GamesListingPool == {ListLAL, ListBOS, ListLA, ListLALB, ListTypo, ListNYK}

GamesEventPool == {LakersGame, IsotopesGame}

GamesCalls ==
    {c \in [op : {"match_game_winner_markets"}, self : {"finder.matcher"},
            vegas_events : ListsUpTo(GamesEventPool, MaxEvents),
            kalshi_markets : ListsUpTo(GamesListingPool, MaxListings)] :
        Cardinality(PartialTexts(c.vegas_events, c.kalshi_markets)) <= MaxTexts}

InitGames ==
    /\ Constructed
    /\ call \in GamesCalls
    /\ fuzz \in ScoreTables(call.vegas_events, call.kalshi_markets)

SpecGames == InitGames /\ [][CallMatcher]_vars

(***************************************************************************)
(* C21: the game an event is paired with                                   *)
(***************************************************************************)
\* what the loop over the games works out for each game of the list
VerdictsOf(games, teams) == [i \in DOMAIN games |-> GameVerdict(games[i], teams)]

\* the game i qualifies with the highest score of the qualifying games and
\* is the first of the list to do so
FirstHighest(verdicts, i) ==
    /\ verdicts[i].is_match
    /\ \A j \in DOMAIN verdicts :
           verdicts[j].is_match =>
               /\ verdicts[j].combined_score <= verdicts[i].combined_score
               /\ j < i => verdicts[j].combined_score < verdicts[i].combined_score

\* C21: the pair of an event, if it has one, is with the qualifying game of
\* the highest score among all the games, and with the first of them in the
\* order the game ids appear in the listings when several share that score.
C21_PairIsWithFirstHighestGame ==
    MatcherDone =>
        \A games \in {KalshiGames(call.kalshi_markets)} :
            \A k \in DOMAIN result :
                \E verdicts \in {VerdictsOf(games, EventTeams(result[k].vegas_event))} :
                    \E i \in DOMAIN games :
                        /\ games[i].game_id = result[k].game_id
                        /\ FirstHighest(verdicts, i)

\* The Lakers at the Celtics against two games of the title "LAL @ BOS": the
\* first, whose one listing has the code LA, and the second with the listing
\* LAL.  Both qualify with the same score, whatever the scores of the library
\* are, and the pair is with the second.
C21_LaterGameWithListingPaired ==
    /\ MatcherDone
    /\ call.vegas_events = << LakersGame >>
    /\ call.kalshi_markets = << ListLA, ListLAL >>
    /\ \E verdicts \in {VerdictsOf(KalshiGames(call.kalshi_markets),
                                   EventTeams(LakersGame))} :
           /\ FirstHighest(verdicts, 1)
           /\ verdicts[2].combined_score = verdicts[1].combined_score
    /\ result = << [vegas_event |-> LakersGame, kalshi_home_market |-> None,
                    kalshi_away_market |-> ListLAL, game_id |-> "26JAN01LALBOS"] >>

(***************************************************************************)
(* C22: the listing a side of a pair gets                                  *)
(***************************************************************************)
\* team_code of a listing
CodeOf(m) == Lower(Get(m, "_team_code", ""))

\* the listing has the code of the side
ExactFor(m, abbrev) == CodeOf(m) = abbrev

\* the listing has a code like the one of the side or one the name of the
\* school starts with, in a college event
FallbackFor(m, abbrev, school, is_college) ==
    /\ is_college
    /\ CodeOf(m) # abbrev
    /\ ratio(CodeOf(m), abbrev) >= 80 \/ StartsWith(school, CodeOf(m))

\* the first listing with the code of the side, or else the first one that
\* falls back to the side, or else none
FirstFor(markets, abbrev, school, is_college) ==
    IF \E i \in DOMAIN markets : ExactFor(markets[i], abbrev)
    THEN markets[CHOOSE i \in DOMAIN markets :
                     /\ ExactFor(markets[i], abbrev)
                     /\ \A j \in 1..(i - 1) : ~ ExactFor(markets[j], abbrev)]
    ELSE IF \E i \in DOMAIN markets : FallbackFor(markets[i], abbrev, school, is_college)
    THEN markets[CHOOSE i \in DOMAIN markets :
                     /\ FallbackFor(markets[i], abbrev, school, is_college)
                     /\ \A j \in 1..(i - 1) :
                            ~ FallbackFor(markets[j], abbrev, school, is_college)]
    ELSE None

\* C22: in a pair each side has the first listing of the game, in the order
\* of the input, that has the code of the side (or, failing that in a college
\* event, the first that falls back to it); a later listing never takes the
\* place of one the side already has, and no listing is on both sides.
C22_FirstListingOfASideIsKept ==
    MatcherDone =>
        \A games \in {KalshiGames(call.kalshi_markets)} :
            \A k \in DOMAIN result :
                \A teams \in {EventTeams(result[k].vegas_event)} :
                    \A game \in {g \in Elements(games) : g.game_id = result[k].game_id} :
                        /\ result[k].kalshi_home_market =
                               FirstFor(game.markets, teams.home_abbrev,
                                        teams.home_school, teams.is_college)
                        /\ result[k].kalshi_away_market =
                               FirstFor(game.markets, teams.away_abbrev,
                                        teams.away_school, teams.is_college)
                        /\ result[k].kalshi_home_market # None
                               => result[k].kalshi_home_market # result[k].kalshi_away_market

\* The Lakers at the Celtics against two listings of one game that both have
\* the code LAL: the away side is given the first and then the second, and
\* the pair has the second.
C22_LaterListingTakesTheSide ==
    /\ MatcherDone
    /\ call.vegas_events = << LakersGame >>
    /\ call.kalshi_markets = << ListLAL, ListLALB >>
    /\ FirstFor(call.kalshi_markets, "lal", "lakers", FALSE) = ListLAL
    /\ result = << [vegas_event |-> LakersGame, kalshi_home_market |-> None,
                    kalshi_away_market |-> ListLALB, game_id |-> "26JAN01LALBOS"] >>

(***************************************************************************)
(* C23: games with both sides in the title against the others              *)
(***************************************************************************)
\* home_in_title and away_in_title both hold for the game
BothInTitle(game, teams) ==
    \E title_lower \in {Lower(game.title)} :
        /\ InTitle(teams.home_school, teams.home_abbrev, title_lower)
        /\ InTitle(teams.away_school, teams.away_abbrev, title_lower)

\* the game qualifies on its two scores alone
OnlyBySimilarity(game, teams) ==
    /\ ~ BothInTitle(game, teams)
    /\ calculate_team_match_score(teams.vegas_home, game.title) >= 60
    /\ calculate_team_match_score(teams.vegas_away, game.title) >= 60

\* C23: for an event that is not a college event, a game that qualifies with
\* both sides in the title has a combined score strictly higher than every
\* game that qualifies on its two scores alone, and the event is not paired
\* with the latter when the former gives it a listing.
C23_BothInTitleOutranksSimilarity ==
    MatcherDone =>
        \A games \in {KalshiGames(call.kalshi_markets)} :
            \A vegas_event \in {e \in Elements(call.vegas_events) : ~ IsCollege(e)} :
                \A teams \in {EventTeams(vegas_event)} :
                    \A named \in {g \in Elements(games) : BothInTitle(g, teams)} :
                        \A alike \in {g \in Elements(games) : OnlyBySimilarity(g, teams)} :
                            /\ GameVerdict(named, teams).combined_score
                                   > GameVerdict(alike, teams).combined_score
                            /\ GivesListing(named, vegas_event)
                                   => ~ PairedWith(vegas_event, alike.game_id, result)

\* The Lakers at the Celtics against the game "LAL @ BOS", which has both
\* codes in its title, and the game "Lakers vs Celtic", which has one name in
\* its title and a score of 60 or more for the other: the second has the
\* higher combined score, 50 + 100 + 70 against 100 + 70 + 0, and the pair.
C23_SimilarGameOutranksNamedGame ==
    /\ MatcherDone
    /\ call.vegas_events = << LakersGame >>
    /\ call.kalshi_markets = << ListLAL, ListTypo >>
    /\ fuzz.partial_ratio[<< "lakers", "lal @ bos" >>] = 70
    /\ fuzz.partial_ratio[<< "celtics", "lal @ bos" >>] = 0
    /\ fuzz.partial_ratio[<< "lakers", "lakers vs celtic" >>] = 100
    /\ fuzz.partial_ratio[<< "celtics", "lakers vs celtic" >>] = 70
    /\ \E teams \in {EventTeams(LakersGame)} :
           \E games \in {KalshiGames(call.kalshi_markets)} :
               /\ BothInTitle(games[1], teams)
               /\ OnlyBySimilarity(games[2], teams)
               /\ GameVerdict(games[1], teams).combined_score = 170
               /\ GameVerdict(games[2], teams).combined_score = 220
    /\ result = << [vegas_event |-> LakersGame, kalshi_home_market |-> None,
                    kalshi_away_market |-> ListTypo, game_id |-> "26JAN04LALBOS"] >>

(***************************************************************************)
(* C24: the games that qualify for an event that is not a college event    *)
(***************************************************************************)
\* the side is in the title: by its name, by its code in the title without
\* its spaces, or by the last word of its name
SideInTitle(name, code, title_lower) ==
    \/ Contains(name, title_lower)
    \/ Contains(code, Replace(title_lower, " ", ""))
    \/ (name # "" /\ Contains(Split(name)[Len(Split(name))], title_lower))

\* both sides are in the title, or both scores are 60 or more
QualifiesByRule(game, teams) ==
    \E title_lower \in {Lower(game.title)} :
        \/ /\ SideInTitle(teams.home_school, teams.home_abbrev, title_lower)
           /\ SideInTitle(teams.away_school, teams.away_abbrev, title_lower)
        \/ /\ partial_ratio(teams.home_school, title_lower) >= 60
           /\ partial_ratio(teams.away_school, title_lower) >= 60

\* one side is in the title, the other is not and scores under 60
OneSideOnly(game, teams) ==
    \E title_lower \in {Lower(game.title)} :
        \/ /\ SideInTitle(teams.home_school, teams.home_abbrev, title_lower)
           /\ ~ SideInTitle(teams.away_school, teams.away_abbrev, title_lower)
           /\ partial_ratio(teams.away_school, title_lower) < 60
        \/ /\ SideInTitle(teams.away_school, teams.away_abbrev, title_lower)
           /\ ~ SideInTitle(teams.home_school, teams.home_abbrev, title_lower)
           /\ partial_ratio(teams.home_school, title_lower) < 60

\* C24: for an event that is not a college event a game qualifies if and
\* only if both sides are in its title or both scores are 60 or more: the
\* event is paired only with such a game, it is paired when such a game gives
\* it a listing, and a game with one side in its title and the other neither
\* in the title nor scoring 60 is never the game of its pair.
C24_QualifiesByTitleOrBothScores ==
    MatcherDone =>
        \A games \in {KalshiGames(call.kalshi_markets)} :
            \A vegas_event \in {e \in Elements(call.vegas_events) : ~ IsCollege(e)} :
                \A teams \in {EventTeams(vegas_event)} :
                    /\ \A game \in Elements(games) :
                           /\ PairedWith(vegas_event, game.game_id, result)
                                  => QualifiesByRule(game, teams)
                           /\ (QualifiesByRule(game, teams) /\ GivesListing(game, vegas_event))
                                  => Paired(vegas_event, result)
                           /\ OneSideOnly(game, teams)
                                  => ~ PairedWith(vegas_event, game.game_id, result)
                    /\ Paired(vegas_event, result)
                           => \E game \in Elements(games) :
                                  PairedWith(vegas_event, game.game_id, result)

\* The Lakers at the Celtics against the one game "Lakers vs Celtic": the
\* Lakers are in the title, the Celtics are not and score 0, the listing LAL
\* would go to the away side, and there is no pair.
C24_Witness ==
    /\ MatcherDone
    /\ call.vegas_events = << LakersGame >>
    /\ call.kalshi_markets = << ListTypo >>
    /\ fuzz.partial_ratio[<< "celtics", "lakers vs celtic" >>] = 0
    /\ fuzz.partial_ratio[<< "lakers", "lakers vs celtic" >>] = 100
    /\ OneSideOnly(KalshiGames(call.kalshi_markets)[1], EventTeams(LakersGame))
    /\ GivesListing(KalshiGames(call.kalshi_markets)[1], LakersGame)
    /\ result = << >>

(***************************************************************************)
(* match_college_teams called on its own                                   *)
(***************************************************************************)
\* the scores the library may give a school and a title: on either side of
\* the limits 80 and 85 of match_college_teams, and at both ends
CollegeLevels == {0, 79, 80, 84, 85, 100}

\* titles with both schools in them, by their names and by their mascots,
\* with one, and with none
CollegeTitles ==
    {"Ohio St. at Michigan", "Buckeyes at Wolverines", "Ohio St. at Mich", "Ohio at Mich"}

CollegeCalls ==
    [op : {"match_college_teams"},
     vegas_home : {"Michigan Wolverines", "Ohio State Buckeyes"},
     vegas_away : {"Michigan Wolverines", "Ohio State Buckeyes"},
     kalshi_title : CollegeTitles]

\* the texts partial_ratio is asked about by a call
CollegeTexts(c) ==
    {<< extract_college_school_name(c.vegas_home), CollegeTitle(c.kalshi_title) >>,
     << extract_college_school_name(c.vegas_away), CollegeTitle(c.kalshi_title) >>}

InitCollege ==
    /\ Constructed
    /\ call \in CollegeCalls
    /\ fuzz \in [partial_ratio : [CollegeTexts(call) -> CollegeLevels], ratio : {<< >>}]

\* is_match, match_confidence = match_college_teams(vegas_home, vegas_away, title)
CallCollege ==
    /\ pc = "call"
    /\ call.op = "match_college_teams"
    /\ result' = match_college_teams(call.vegas_home, call.vegas_away, call.kalshi_title)
    /\ raised' = ""
    /\ pc' = "done"
    /\ UNCHANGED << min_edge, min_bookmakers, call, opportunities, outside >>

SpecCollege == InitCollege /\ [][CallCollege]_vars

CollegeDone == pc = "done" /\ call.op = "match_college_teams"

(***************************************************************************)
(* C25: the score of a game for a college event                            *)
(***************************************************************************)
\* the school of the team is in the title the function reads
SchoolInTitle(team, title_lower) ==
    \/ Contains(extract_college_school_name(team), title_lower)
    \/ AliasInTitle(get_college_abbrev(team), title_lower)

\* the score of the school of the team against the title
SchoolScore(team, title_lower) ==
    fuzz.partial_ratio[<< extract_college_school_name(team), title_lower >>]

\* the three rules in their order, and what is returned under each; twice
\* the confidence is given so that the mean of two scores is a whole number
ReturnsByRule(verdict, home_in, away_in, home_score, away_score, both_in_title) ==
    IF home_in /\ away_in
    THEN verdict.is_match /\ verdict.halves \in both_in_title
    ELSE IF home_score >= 80 /\ away_score >= 80
    THEN verdict.is_match /\ verdict.halves = home_score + away_score
    ELSE IF (home_in \/ home_score >= 85) /\ (away_in \/ away_score >= 85)
    THEN /\ verdict.is_match
         /\ verdict.halves \in {2 * home_score, 2 * away_score}
         /\ verdict.halves >= 2 * home_score
         /\ verdict.halves >= 2 * away_score
    ELSE ~ verdict.is_match

\* C25 as it holds: match_college_teams gives a game the confidence 100 when
\* both schools are in its title, whatever the two scores are; the mean of
\* the two scores when both are 80 or more and not both schools are in the
\* title; the greater of the two scores when each school is in the title or
\* scores 85 or more; and no match when none of the three rules applies.  The
\* combined score of the game is twice that confidence.
C25_CollegeConfidenceByRule ==
    CollegeDone =>
        \E title_lower \in {CollegeTitle(call.kalshi_title)} :
            /\ ReturnsByRule(result,
                             SchoolInTitle(call.vegas_home, title_lower),
                             SchoolInTitle(call.vegas_away, title_lower),
                             SchoolScore(call.vegas_home, title_lower),
                             SchoolScore(call.vegas_away, title_lower),
                             {2 * 100})
            /\ CollegeCombined(result).combined_score = result.halves

\* C25 as stated: with both schools in the title the score is twice the mean
\* of the two scores (be the score the confidence returned or the combined
\* score made of it), and under the other two rules the mean and the greater
\* of the two scores.
C25_BothInTitleScoresTwiceTheMean ==
    CollegeDone =>
        \E title_lower \in {CollegeTitle(call.kalshi_title)} :
            \E home_score \in {SchoolScore(call.vegas_home, title_lower)} :
                \E away_score \in {SchoolScore(call.vegas_away, title_lower)} :
                    ReturnsByRule(result,
                                  SchoolInTitle(call.vegas_home, title_lower),
                                  SchoolInTitle(call.vegas_away, title_lower),
                                  home_score, away_score,
                                  {2 * (home_score + away_score), home_score + away_score})

\* Michigan against Ohio State and the title "Buckeyes at Wolverines": both
\* schools are in the title by their mascots, the scores of the school names
\* are 0 and 79, and the confidence returned is 100.
C25_Witness ==
    /\ CollegeDone
    /\ call.vegas_home = "Michigan Wolverines"
    /\ call.vegas_away = "Ohio State Buckeyes"
    /\ call.kalshi_title = "Buckeyes at Wolverines"
    /\ SchoolInTitle(call.vegas_home, "buckeyes at wolverines")
    /\ SchoolInTitle(call.vegas_away, "buckeyes at wolverines")
    /\ fuzz.partial_ratio[<< "michigan", "buckeyes at wolverines" >>] = 0
    /\ fuzz.partial_ratio[<< "ohio st", "buckeyes at wolverines" >>] = 79
    /\ result = [is_match |-> TRUE, halves |-> 200]

(***************************************************************************)
(* api/kalshi_api.py: KalshiClient.get_game_winner_markets                 *)
(***************************************************************************)
\* text.split(sep) for a separator of one character; parts holds what has
\* been split off so far, the part being read last
RECURSIVE SplitAt(_, _, _)
SplitAt(text, sep, parts) ==
    IF text = "" THEN parts
    ELSE IF Head(text) = sep THEN SplitAt(Tail(text), sep, Append(parts, ""))
    ELSE SplitAt(Tail(text), sep, [parts EXCEPT ![Len(parts)] = @ \o Head(text)])

\* ticker.split('-')
TickerParts(ticker) == SplitAt(ticker, "-", << "" >>)

series_map ==
    [nfl |-> "KXNFLGAME", nba |-> "KXNBAGAME", mlb |-> "KXMLBGAME", nhl |-> "KXNHLGAME",
     ncaab |-> "KXNCAAMBGAME", ncaaw |-> "KXNCAAWBGAME"]

\* the same with the first segment taken for the game id
Segmented_FirstSegment(market, parts, sport) ==
    IF Len(parts) >= 3
    THEN [_team_code |-> parts[Len(parts)], _game_id |-> parts[1], _sport |-> Lower(sport)]
             @@ market
    ELSE market

\* the market after lines 108-111
Segmented(market, parts, sport) ==
    IF Len(parts) >= 3
    THEN [_team_code |-> parts[Len(parts)], _game_id |-> parts[2], _sport |-> Lower(sport)]
             @@ market
    ELSE market

\* the loop over the markets of one sport: what it appends to all_markets
MarketsOf(markets, sport) ==
    [i \in DOMAIN markets |->
        Segmented(markets[i], TickerParts(Get(markets[i], "ticker", "")), sport)]

\* get_markets raised
Failed == [error |-> "RequestException"]

\* one iteration of the loop over the sports; served[series] is what
\* get_markets returns for the series, or Failed
SportMarkets(sport, served) ==
    IF Lower(sport) \notin DOMAIN series_map THEN << >>
    ELSE IF served[series_map[Lower(sport)]] = Failed THEN << >>
    ELSE MarketsOf(Get(served[series_map[Lower(sport)]], "markets", << >>), sport)

\* all_markets after the loop over the sports
RECURSIVE AllMarkets(_, _)
AllMarkets(sports, served) ==
    IF sports = << >> THEN << >>
    ELSE AllMarkets(SubSeq(sports, 1, Len(sports) - 1), served)
         \o SportMarkets(sports[Len(sports)], served)

(***************************************************************************)
(* The listings Kalshi serves, fetched and then matched                    *)
(***************************************************************************)
\* a market as the API gives it
ServedMarket(ticker, title) == [ticker |-> ticker, title |-> title, yes_ask |-> 45]

\* tickers of three segments, of two, with an empty second one, of four, and
\* a market without a ticker
ServedPool ==
    {ServedMarket("KXNBAGAME-26JAN01LALBOS-LAL", "LAL @ BOS"),
     ServedMarket("KXNBAGAME-26JAN01LALBOS-BOS", "LAL @ BOS"),
     ServedMarket("KXNBAGAME-26JAN01LALBOS", "LAL @ BOS"),
     ServedMarket("KXNBAGAME--LAL", "LAL @ BOS"),
     ServedMarket("KXNBAGAME-26JAN02LALBOS-OT-BOS", "LAL @ BOS"),
     [title |-> "LAL @ BOS", yes_ask |-> 45]}

\* what get_markets returns for the series of the NBA
Responses ==
    {Failed, [cursor |-> ""]}
        \cup {[markets |-> markets, cursor |-> ""] : markets \in ListsUpTo(ServedPool, MaxListings)}

FetchCalls ==
    [op : {"get_game_winner_markets"},
     sports : {<< >>, << "nba" >>, << "xfl", "NBA" >>},
     served : [{"KXNBAGAME"} -> Responses],
     vegas_events : {<< >>, << LakersGame >>}]

InitFetch ==
    /\ Constructed
    /\ call \in FetchCalls
    /\ fuzz \in ScoreTables(call.vegas_events, AllMarkets(call.sports, call.served))

\* kalshi_markets = kalshi_client.get_game_winner_markets(sports=kalshi_sports)
get_game_winner_markets ==
    /\ pc = "call"
    /\ call.op = "get_game_winner_markets"
    /\ result' = AllMarkets(call.sports, call.served)
    /\ raised' = ""
    /\ pc' = "fetched"
    /\ UNCHANGED << min_edge, min_bookmakers, call, opportunities, outside >>

\* the matcher called with the events and the listings fetched
MatchFetched ==
    /\ pc = "fetched"
    /\ result' = match_game_winner_markets(call.vegas_events, result)
    /\ raised' = ""
    /\ pc' = "done"
    /\ UNCHANGED << min_edge, min_bookmakers, call, opportunities, outside >>

NextFetch == get_game_winner_markets \/ MatchFetched

SpecFetch == InitFetch /\ [][NextFetch]_vars

(***************************************************************************)
(* C26: tickers, game ids and side codes                                   *)
(***************************************************************************)
\* the ticker has three segments or more and its second one is not empty
WellFormed(ticker) ==
    \E parts \in {TickerParts(ticker)} : Len(parts) >= 3 /\ parts[2] # ""

\* the listing carries the second segment of its ticker as its game id and
\* the last one as its side code
CarriesSegments(m) ==
    \E parts \in {TickerParts(Get(m, "ticker", ""))} :
        /\ "_game_id" \in DOMAIN m /\ m._game_id = parts[2]
        /\ "_team_code" \in DOMAIN m /\ m._team_code = parts[Len(parts)]

\* the listings of the pairs
PairListings(matches) ==
    {matches[k].kalshi_home_market : k \in DOMAIN matches}
        \cup {matches[k].kalshi_away_market : k \in DOMAIN matches}

\* C26: a listing whose ticker has fewer than three segments between hyphens,
\* or an empty second segment, is in no pair; every other listing fetched has
\* the second segment as its game id and the last as its side code; and the
\* listings of a pair have the game id the pair records.
C26_PairsOnlyOfWellFormedTickers ==
    /\ pc = "fetched" =>
           \A i \in DOMAIN result :
               IF Len(TickerParts(Get(result[i], "ticker", ""))) >= 3
               THEN CarriesSegments(result[i])
               ELSE "_game_id" \notin DOMAIN result[i]
    /\ (pc = "done" /\ call.op = "get_game_winner_markets") =>
           \A k \in DOMAIN result :
               \A m \in {result[k].kalshi_home_market, result[k].kalshi_away_market} \ {None} :
                   /\ WellFormed(Get(m, "ticker", ""))
                   /\ CarriesSegments(m)
                   /\ m._game_id = result[k].game_id

\* The listing of four segments and the one of two, fetched for the NBA and
\* matched with the Lakers at the Celtics: the pair is with the game of the
\* first, 26JAN02LALBOS, on the home side by its last segment BOS.
C26_Witness ==
    /\ pc = "done"
    /\ call.op = "get_game_winner_markets"
    /\ call.sports = << "nba" >>
    /\ call.vegas_events = << LakersGame >>
    /\ Get(call.served["KXNBAGAME"], "markets", << >>) =
           << ServedMarket("KXNBAGAME-26JAN01LALBOS", "LAL @ BOS"),
              ServedMarket("KXNBAGAME-26JAN02LALBOS-OT-BOS", "LAL @ BOS") >>
    /\ Len(result) = 1
    /\ result[1].game_id = "26JAN02LALBOS"
    /\ result[1].kalshi_away_market = None
    /\ result[1].kalshi_home_market.ticker = "KXNBAGAME-26JAN02LALBOS-OT-BOS"
    /\ result[1].kalshi_home_market._team_code = "BOS"

(***************************************************************************)
(* _process_vegas_event in exact arithmetic: every number is a fraction    *)
(* n / d of two naturals with d > 0                                        *)
(***************************************************************************)
Fraction(n, d) == [n |-> BFromInt(n), d |-> BFromInt(d)]

\* the operations on fractions given as values
SumOf(x, y) == [n |-> BAdd(BMul(x.n, y.d), BMul(y.n, x.d)), d |-> BMul(x.d, y.d)]

DifferenceOf(x, y) == [n |-> BSub(BMul(x.n, y.d), BMul(y.n, x.d)), d |-> BMul(x.d, y.d)]

ProductOf(x, y) == [n |-> BMul(x.n, y.n), d |-> BMul(x.d, y.d)]

QuotientOf(x, y) == [n |-> BMul(x.n, y.d), d |-> BMul(x.d, y.n)]

QAdd(x, y) == CHOOSE q \in {SumOf(xy[1], xy[2]) : xy \in {<< x, y >>}} : TRUE

\* x - y for x >= y
QSub(x, y) == CHOOSE q \in {DifferenceOf(xy[1], xy[2]) : xy \in {<< x, y >>}} : TRUE

QMul(x, y) == CHOOSE q \in {ProductOf(xy[1], xy[2]) : xy \in {<< x, y >>}} : TRUE

\* x / y for y > 0
QDiv(x, y) == CHOOSE q \in {QuotientOf(xy[1], xy[2]) : xy \in {<< x, y >>}} : TRUE

QEq(x, y) == \E xy \in {<< x, y >>} : BMul(xy[1].n, xy[2].d) = BMul(xy[2].n, xy[1].d)

QLt(x, y) ==
    \E xy \in {<< x, y >>} : BCmp(BMul(xy[1].n, xy[2].d), BMul(xy[2].n, xy[1].d)) < 0

RECURSIVE QSum(_)
QSum(xs) == IF xs = << >> THEN Fraction(0, 1) ELSE QAdd(Head(xs), QSum(Tail(xs)))

\* the greatest common divisor of two naturals
RECURSIVE GCD(_, _)
GCD(a, b) == IF b = 0 THEN a ELSE GCD(b, a % b)

\* n / d in lowest terms, for d > 0
Lowest(n, d) == Fraction(n \div GCD(n, d), d \div GCD(n, d))

\* american_to_implied_prob without rounding: numerator and denominator
ExactImpliedProb(american_odds) ==
    IF american_odds > 0 THEN << 100, american_odds + 100 >>
    ELSE << IAbs(american_odds), IAbs(american_odds) + 100 >>

\* remove_vig without rounding: total = prob_a + prob_b is
\* (a[1] * b[2] + b[1] * a[2]) / (a[2] * b[2]), and the shares are the two
\* terms of its numerator over that numerator
ExactRemoveVig(a, b) ==
    IF a[1] * b[2] + b[1] * a[2] <= 0 THEN ValueError
    ELSE [a |-> Lowest(a[1] * b[2], a[1] * b[2] + b[1] * a[2]),
          b |-> Lowest(b[1] * a[2], a[1] * b[2] + b[1] * a[2])]

ExactQuote(market, home_team, away_team) ==
    ExactRemoveVig(ExactImpliedProb(OutcomePrice(market.outcomes, home_team)),
                   ExactImpliedProb(OutcomePrice(market.outcomes, away_team)))

\* one iteration of the loop over markets
ExactCollectAfter(before, market, home_team, away_team) ==
    IF before.raised \/ market.key # "h2h" THEN before
    ELSE IF /\ home_team \in OutcomeNames(market.outcomes)
            /\ away_team \in OutcomeNames(market.outcomes)
    THEN CollectQuoted(before, ExactQuote(market, home_team, away_team))
    ELSE before

\* the loop over books and markets
RECURSIVE ExactCollectProbs(_, _, _)
ExactCollectProbs(markets, home_team, away_team) ==
    IF markets = << >>
    THEN [raised |-> FALSE, home_probs |-> << >>, away_probs |-> << >>]
    ELSE ExactCollectAfter(ExactCollectProbs(SubSeq(markets, 1, Len(markets) - 1),
                                             home_team, away_team),
                           markets[Len(markets)], home_team, away_team)

RECURSIVE QInsert(_, _)
QInsert(sorted, v) ==
    IF sorted = << >> THEN << v >>
    ELSE IF QLt(v, Head(sorted)) THEN << v >> \o sorted
    ELSE << Head(sorted) >> \o QInsert(Tail(sorted), v)

\* sorted(data)
RECURSIVE QSorted(_)
QSorted(data) ==
    IF data = << >> THEN << >>
    ELSE QInsert(QSorted(SubSeq(data, 1, Len(data) - 1)), data[Len(data)])

\* the middle of the sorted data, the mean of the two middle ones for an
\* even count
ExactMiddle(sorted, n) ==
    IF n % 2 = 1 THEN sorted[(n + 1) \div 2]
    ELSE QDiv(QAdd(sorted[n \div 2], sorted[n \div 2 + 1]), Fraction(2, 1))

\* the largest of the data in place of the median
ExactMedian_Largest(data) == QSorted(data)[Len(data)]

\* statistics.median without rounding
ExactMedian(data) == ExactMiddle(QSorted(data), Len(data))

\* the squares of the data
Squares(data) == [i \in DOMAIN data |-> QMul(data[i], data[i])]

\* the square of statistics.stdev without rounding: the sum of the squares
\* less the square of the sum over n, over n - 1
ExactVariance(data, n) ==
    QDiv(QSub(QSum(Squares(data)),
              QDiv(QMul(QSum(data), QSum(data)), Fraction(n, 1))),
         Fraction(n - 1, 1))

\* the end of _process_vegas_event; the deviations are given by their squares
ExactConsensus(probs) ==
    IF probs.raised THEN ValueError
    ELSE IF probs.home_probs = << >> THEN None
    ELSE [home_prob |-> ExactMedian(probs.home_probs),
          away_prob |-> ExactMedian(probs.away_probs),
          num_bookmakers |-> Len(probs.home_probs),
          home_std_squared |-> IF Len(probs.home_probs) > 1
                               THEN ExactVariance(probs.home_probs, Len(probs.home_probs))
                               ELSE Fraction(0, 1),
          away_std_squared |-> IF Len(probs.away_probs) > 1
                               THEN ExactVariance(probs.away_probs, Len(probs.away_probs))
                               ELSE Fraction(0, 1)]

exact_process_vegas_event(event, bookmakers_threshold) ==
    IF Len(event.bookmakers) < bookmakers_threshold THEN None
    ELSE ExactConsensus(ExactCollectProbs(BookMarkets(event.bookmakers),
                                          event.home_team, event.away_team))

\* bookmakers for the exact consensus: four that quote both teams and two
\* that do not
ExactBookKinds == {QuoteA, QuoteB, QuoteEven, Outlier, OtherNames, ZeroOdds}

InitExact ==
    /\ ValueFinderInit
    /\ call \in [op : {"_process_vegas_event exactly"},
                 event : {Event("ev", books) : books \in ListsUpTo(ExactBookKinds, MaxBooks)}]

CallExact ==
    /\ pc = "call"
    /\ call.op = "_process_vegas_event exactly"
    /\ \E vegas_probs \in {exact_process_vegas_event(call.event, min_bookmakers)} :
           result' = Returned(vegas_probs) /\ raised' = Raised(vegas_probs)
    /\ pc' = "done"
    /\ UNCHANGED << min_edge, min_bookmakers, call, opportunities, outside >>

SpecExact == InitExact /\ [][CallExact]_vars

ExactDone == pc = "done" /\ call.op = "_process_vegas_event exactly"

(***************************************************************************)
(* C27: the two sides of a consensus                                       *)
(***************************************************************************)
\* C27: whenever _process_vegas_event returns a consensus, then in exact
\* arithmetic home_prob + away_prob = 1 and home_std = away_std, for odd and
\* for even numbers of samples.
C27_SidesAreComplementary ==
    (ExactDone /\ result # None) =>
        /\ QEq(QAdd(result.home_prob, result.away_prob), Fraction(1, 1))
        /\ QEq(result.home_std_squared, result.away_std_squared)

\* Three bookmakers of whom two quote the teams: an even number of samples,
\* 11/20 and 63/73 for the home team, whose consensus is their mean 2063/2920
\* against 857/2920, with a deviation that is not zero.
C27_Witness ==
    /\ ExactDone
    /\ call.event.bookmakers = << QuoteA, OtherNames, Outlier >>
    /\ result # None
    /\ result.num_bookmakers = 2
    /\ QEq(result.home_prob, Fraction(2063, 2920))
    /\ QEq(result.away_prob, Fraction(857, 2920))
    /\ QLt(Fraction(0, 1), result.home_std_squared)

(***************************************************************************)
(* Pairs whose listings have every kind of yes_ask                         *)
(***************************************************************************)
\* the listing of a side: none, one without yes_ask, or one with the ask
AskKinds == {"none", "missing", "negative", "zero", "inside", "hundred", "over"}

AskOf(kind) ==
    IF kind = "negative" THEN 0 - 5
    ELSE IF kind = "zero" THEN 0
    ELSE IF kind = "inside" THEN 40
    ELSE IF kind = "hundred" THEN 100
    ELSE 140

SideListing(kind, ticker) ==
    IF kind = "none" THEN None
    ELSE IF kind = "missing" THEN Unpriced(ticker)
    ELSE Listing(ticker, AskOf(kind))

\* a pair of an event with the consensus 0.55 home and 0.45 away
PricedMatch(home_kind, away_kind) ==
    Match(Event("ev_" \o home_kind \o "_" \o away_kind, ThreeQuotes),
          SideListing(home_kind, "K-" \o home_kind \o "-" \o away_kind \o "-H"),
          SideListing(away_kind, "K-" \o home_kind \o "-" \o away_kind \o "-A"))

PricePool ==
    {PricedMatch(kinds[1], kinds[2]) :
        kinds \in (AskKinds \X AskKinds) \ {<< "none", "none" >>}}

\* one pair, or any pair followed by one whose home listing asks 40 cents
PriceCalls ==
    {matches \in ListsUpTo(PricePool, MaxMatches) :
        Len(matches) = 2 => matches[2] \in {PricedMatch("inside", kind) : kind \in AskKinds}}

InitPrices ==
    /\ ValueFinderInit
    /\ call \in [op : {"find_game_winner_value"}, matches : PriceCalls]

SpecPrices == InitPrices /\ [][find_game_winner_value]_vars

(***************************************************************************)
(* C28: listings without a price between 0 and 100 cents                   *)
(***************************************************************************)
\* yes_ask is missing, 0 or less, or 100 or more
BadAsk(m) == "yes_ask" \notin DOMAIN m \/ m.yes_ask <= 0 \/ m.yes_ask >= 100

\* an opportunity on the listing of that ticker
OpportunityOn(ticker, opps) == \E i \in DOMAIN opps : opps[i].kalshi_ticker = ticker

\* the net edge of the side at the ask of its listing, on 100 contracts,
\* meets the threshold
SideHasEdge(team, match) ==
    \E vegas_probs \in {process_vegas_event(match.vegas_event, min_bookmakers)} :
        /\ vegas_probs # None
        /\ MeetsThreshold(
               EdgeCalculation_calculate(
                   PriceOf(SideMarket(team, match).yes_ask),
                   IF team = "home" THEN vegas_probs.home_prob ELSE vegas_probs.away_prob,
                   100, "yes", FALSE).net_edge,
               min_edge)

\* the price at which the opportunity was worked out
PriceIn(opp) ==
    IF opp.recommended_team = "home" THEN opp.kalshi_home_price ELSE opp.kalshi_away_price

\* C28: in find_game_winner_value a side whose listing has yes_ask missing,
\* 0 or less, or 100 or more gives no opportunity and no error; the other
\* side of the pair is looked at all the same; and the fee is worked out only
\* for prices strictly between 0 and 1 and for 100 contracts.
C28_BadAskGivesNothing ==
    FindDone =>
        /\ raised = ""
        /\ \A k \in DOMAIN call.matches :
               \A team \in Sides :
                   \A m \in {SideMarket(team, call.matches[k])} \ {None} :
                       IF BadAsk(m) THEN ~ OpportunityOn(m.ticker, result)
                       ELSE OpportunityOn(m.ticker, result)
                                <=> SideHasEdge(team, call.matches[k])
        /\ \A i \in DOMAIN result :
               /\ FLt(FZero, PriceIn(result[i])) /\ FLt(PriceIn(result[i]), FOne)
               /\ result[i].fee_impact
                      = FDiv(calculate_kalshi_fee(PriceIn(result[i]), 100, FALSE), FInt(100))
               /\ result[i].expected_value_100_contracts
                      = FMul(result[i].expected_value_per_contract, FInt(100))

\* A pair whose home listing has no yes_ask and whose away listing asks 40
\* cents, then a pair at 40 and 100 cents: nothing is raised, and the two
\* opportunities are the home side of the second and the away side of the
\* first.
C28_Witness ==
    /\ FindDone
    /\ call.matches = << PricedMatch("missing", "inside"), PricedMatch("inside", "hundred") >>
    /\ raised = ""
    /\ Len(result) = 2
    /\ result[1].kalshi_ticker = "K-inside-hundred-H"
    /\ result[1].kalshi_away_price = FOne
    /\ result[2].kalshi_ticker = "K-missing-inside-A"
    /\ result[2].kalshi_home_price = FZero
    /\ result[2].kalshi_away_price = FLit(40, 100)

(***************************************************************************)
(* _request of KalshiClient and of OddsAPIClient                           *)
(***************************************************************************)
MAX_RETRIES == 3

RETRY_BASE_DELAY == 1

\* 2 ** n
RECURSIVE PowerOfTwo(_)
PowerOfTwo(n) == IF n = 0 THEN 1 ELSE 2 * PowerOfTwo(n - 1)

\* JSON values as response.json() gives them: a dict or a list
JsonObject(members) == [json |-> "object", members |-> members]

JsonArray(items) == [json |-> "array", items |-> items]

\* a body that is no JSON text
NotJson == [html |-> "<html>"]

\* the text of a header that was sent
Header(text) == [text |-> text]

\* an HTTP response with its two quota headers, None for a header not sent
Response(status_code, body, remaining, used) ==
    [status_code |-> status_code, body |-> body,
     x_requests_remaining |-> remaining, x_requests_used |-> used]

\* the attempt got no response: the connection failed or timed out
NoResponse == [error |-> "ConnectionError"]

\* what the server may answer to one attempt
ServerResponses ==
    {Response(200, JsonObject([cursor |-> ""]), None, None),
     Response(200, JsonArray(<< "ev_lal_bos" >>), Header("499"), Header("1")),
     Response(200, NotJson, None, None),
     Response(429, NotJson, Header("0"), Header("500")),
     Response(401, JsonObject([message |-> "unauthorized"]), None, None),
     Response(500, NotJson, None, None),
     NoResponse}

\* what one iteration of the loop comes to: return, raise, or sleep and go
\* on with the next attempt
Returns(value) == [does |-> "return", value |-> value]

Raises(error) == [does |-> "raise", error |-> error]

Sleeps(delay) == [does |-> "sleep", delay |-> delay]

\* the same with the base delay at every attempt
RateLimitDelay_Constant(n) == RETRY_BASE_DELAY

\* delay = RETRY_BASE_DELAY * (2 ** attempt)
RateLimitDelay(n) == RETRY_BASE_DELAY * PowerOfTwo(n)

\* the same without the raise on the last attempt
OnRequestException_AlwaysRetries(n, error) == Sleeps(RETRY_BASE_DELAY)

\* except requests.exceptions.RequestException
OnRequestException(n, error) ==
    IF n = MAX_RETRIES - 1 THEN Raises(error) ELSE Sleeps(RETRY_BASE_DELAY)

\* except requests.exceptions.HTTPError, in KalshiClient
KalshiOnHTTPError(n, status_code) ==
    IF status_code = 429 THEN Sleeps(RateLimitDelay(n)) ELSE Raises("HTTPError")

\* except requests.exceptions.HTTPError, in OddsAPIClient
OddsOnHTTPError(n, status_code) ==
    IF status_code = 429 THEN Sleeps(RateLimitDelay(n))
    ELSE IF status_code = 401 THEN Raises("ValueError")
    ELSE Raises("HTTPError")

\* response.json() of a body that is no JSON text raises JSONDecodeError,
\* which is a RequestException in the newer releases of requests and only a
\* ValueError in the older ones
OnJSONDecodeError(n, newer) ==
    IF newer THEN OnRequestException(n, "JSONDecodeError") ELSE Raises("JSONDecodeError")

\* the body of the loop, for what the attempt number n got
Iteration(client, n, response, newer) ==
    IF response = NoResponse THEN OnRequestException(n, "ConnectionError")
    ELSE IF response.status_code >= 400
    THEN IF client = "KalshiClient" THEN KalshiOnHTTPError(n, response.status_code)
         ELSE OddsOnHTTPError(n, response.status_code)
    ELSE IF response.body = NotJson THEN OnJSONDecodeError(n, newer)
    ELSE Returns(response.body)

\* the iteration returns, raises, or sleeps and goes to the next attempt
Took(outcome) ==
    /\ pc' = IF outcome.does = "sleep" THEN "loop" ELSE "done"
    /\ result' = IF outcome.does = "return" THEN outcome.value ELSE None
    /\ raised' = IF outcome.does = "raise" THEN outcome.error ELSE ""
    /\ slept' = IF outcome.does = "sleep" THEN Append(slept, outcome.delay) ELSE slept
    /\ attempt' = IF outcome.does = "sleep" THEN attempt + 1 ELSE attempt

\* return {} or return [] after the loop
ReturnsEmpty(value) ==
    /\ pc \in {"call", "loop"}
    /\ attempt = MAX_RETRIES
    /\ result' = value
    /\ raised' = ""
    /\ pc' = "done"
    /\ UNCHANGED << attempt, received, slept >>

\* a step of KalshiClient._request: an iteration of its loop, or the return
\* after the loop
KalshiClient_request ==
    /\ call.op = "KalshiClient._request"
    /\ \/ /\ pc \in {"call", "loop"}
          /\ attempt < MAX_RETRIES
          /\ \E response \in ServerResponses :
                /\ received' = Append(received, response)
                /\ Took(Iteration("KalshiClient", attempt, response, call.newer))
       \/ ReturnsEmpty(JsonObject(<< >>))
    /\ UNCHANGED << min_edge, min_bookmakers, call, opportunities, match_threshold,
                    fuzz, earlier, export_dir, history_file,
                    remaining_requests, used_requests >>

\* a step of OddsAPIClient._request: an iteration of its loop, which keeps
\* the quota headers of the response, or the return after the loop
OddsAPIClient_request ==
    /\ call.op = "OddsAPIClient._request"
    /\ \/ /\ pc \in {"call", "loop"}
          /\ attempt < MAX_RETRIES
          /\ \E response \in ServerResponses :
                /\ received' = Append(received, response)
                /\ remaining_requests' = IF response = NoResponse THEN remaining_requests
                                         ELSE response.x_requests_remaining
                /\ used_requests' = IF response = NoResponse THEN used_requests
                                    ELSE response.x_requests_used
                /\ Took(Iteration("OddsAPIClient", attempt, response, call.newer))
       \/ /\ ReturnsEmpty(JsonArray(<< >>))
          /\ UNCHANGED << remaining_requests, used_requests >>
    /\ UNCHANGED << min_edge, min_bookmakers, call, opportunities, match_threshold,
                    fuzz, earlier, export_dir, history_file >>

\* a call of _request of either client, with either kind of release of the
\* requests library installed
InitRequest ==
    /\ ValueFinderInit
    /\ call \in [op : {"KalshiClient._request", "OddsAPIClient._request"},
                 newer : BOOLEAN]

NextRequest == KalshiClient_request \/ OddsAPIClient_request

SpecRequest == InitRequest /\ [][NextRequest]_vars

\* every attempt ends, with a response or with the timeout of REQUEST_TIMEOUT
\* seconds, every sleep ends, and nothing else runs in the client: a step
\* that can be taken is taken
SpecRequestLive == SpecRequest /\ WF_vars(NextRequest)

(***************************************************************************)
(* C29: _request makes at most MAX_RETRIES attempts and ends               *)
(***************************************************************************)
RequestDone == pc = "done" /\ call.op \in {"KalshiClient._request", "OddsAPIClient._request"}

\* a response whose status is below 400 and whose body is JSON
Successful(response) ==
    response # NoResponse /\ response.status_code < 400 /\ response.body # NotJson

\* a response with an error status other than 429
OtherHTTPError(response) ==
    response # NoResponse /\ response.status_code >= 400 /\ response.status_code # 429

\* the last of the attempts made got response
LastGot(response) == received # << >> /\ received[Len(received)] = response

\* at most MAX_RETRIES attempts; none after a successful response or an HTTP
\* error other than 429; the successful response is returned and the HTTP
\* error raised; the transport error of an attempt is raised exactly when
\* the attempt is the last of MAX_RETRIES
AttemptsAsStated ==
    /\ Len(received) <= MAX_RETRIES
    /\ \A i \in 1..Len(received) - 1 :
           ~ Successful(received[i]) /\ ~ OtherHTTPError(received[i])
    /\ \A response \in ServerResponses :
           /\ (LastGot(response) /\ Successful(response))
                  => pc = "done" /\ raised = "" /\ result = response.body
           /\ (LastGot(response) /\ OtherHTTPError(response))
                  => pc = "done" /\ raised \in {"HTTPError", "ValueError"}
    /\ LastGot(NoResponse) =>
           IF Len(received) = MAX_RETRIES
           THEN pc = "done" /\ raised = "ConnectionError"
           ELSE raised = "" /\ (pc = "loop" => attempt = Len(received))
    /\ raised = "ConnectionError" => LastGot(NoResponse) /\ Len(received) = MAX_RETRIES

\* C29: whatever the server answers, _request of either client makes at most
\* MAX_RETRIES (3) HTTP attempts and ends; it makes no attempt after a
\* successful response, which it returns, nor after an HTTP error other than
\* 429, which it raises at once; a transport error is retried, and raised
\* only on the last attempt.
C29_AtMostMaxRetriesAndEnds == [] AttemptsAsStated /\ <> RequestDone

\* Two attempts got no response and were retried after a second each, the
\* third got none either and its error is raised.
C29_Witness ==
    /\ RequestDone
    /\ received = << NoResponse, NoResponse, NoResponse >>
    /\ slept = << 1, 1 >>
    /\ raised = "ConnectionError"
    /\ result = None

(***************************************************************************)
(* C30: every attempt answered with 429                                    *)
(***************************************************************************)
\* every attempt made so far was answered with 429
AllRateLimited ==
    \A i \in 1..Len(received) : received[i] # NoResponse /\ received[i].status_code = 429

EmptyResult == IF call.op = "KalshiClient._request" THEN JsonObject(<< >>) ELSE JsonArray(<< >>)

\* C30: when each of the MAX_RETRIES attempts of _request is answered with
\* 429, the client waits RETRY_BASE_DELAY * 2^attempt after each of them (1,
\* 2 and 4 seconds) and then returns an empty result, {} from Kalshi and []
\* from the odds source, and raises nothing.
C30_RateLimitedThriceReturnsEmpty ==
    (call.op \in {"KalshiClient._request", "OddsAPIClient._request"} /\ AllRateLimited) =>
        /\ Len(slept) = Len(received)
        /\ \A i \in 1..Len(slept) : slept[i] = RETRY_BASE_DELAY * PowerOfTwo(i - 1)
        /\ raised = ""
        /\ (Len(received) = MAX_RETRIES) => (slept = << 1, 2, 4 >>)
        /\ (pc = "done" /\ Len(received) = MAX_RETRIES)
               => (result = EmptyResult /\ raised = "")
        /\ pc = "done" => Len(received) = MAX_RETRIES

\* The odds client, answered 429 three times, has slept 1, 2 and 4 seconds
\* and returned the empty list.
C30_Witness ==
    /\ RequestDone
    /\ call.op = "OddsAPIClient._request"
    /\ Len(received) = MAX_RETRIES
    /\ AllRateLimited
    /\ slept = << 1, 2, 4 >>
    /\ result = JsonArray(<< >>)
    /\ raised = ""
    /\ remaining_requests = Header("0")

====
